---- MODULE Spec2Model ----
(***************************************************************************)
(* Model of the darwinAgent example code: the user-attribute extractor,    *)
(* the FastAPI + LangGraph chat service (fastapi_langgraph_memory.py), the  *)
(* Gradio chat page and application shell (app/ui), and the chat wrappers   *)
(* of the example scripts.                                                  *)
(*                                                                         *)
(* Spec          the service: chat, clear, delete, on many inputs           *)
(* SpecEndpoints the service: every endpoint and handler exit, few inputs   *)
(* SpecExtract   the three copies of the extractor                          *)
(* SpecUI        the chat page                                              *)
(* SpecApp       the chat page inside the tabs and navigation buttons       *)
(* SpecWrappers  the chat wrappers, the asynchronous one run concurrently   *)
(*                                                                         *)
(* Text is modelled as a sequence of characters, each character a string.   *)
(* A Chinese character is written as its pinyin syllable, with a digit      *)
(* where two characters of the source would otherwise collide ("shi4" is    *)
(* U+662F, "shi1" is U+5E08); "fcomma" is the full-width comma U+FF0C.      *)
(* A Latin letter is the one-letter string.                                 *)
(***************************************************************************)
EXTENDS Integers, Sequences, FiniteSets, TLC

VARIABLES
    \* ---- extractor harness ----
    ex_fn,        \* which of the three extractor copies is applied
    ex_messages,  \* the message list handed to the extractor
    ex_result,    \* the returned mapping
    ex_pc,        \* "call" before the extractor ran, "done" after
    \* ---- FastAPI service ----
    chat_app,     \* module global chat_app: FALSE is None, TRUE is the compiled graph
    store,        \* MemorySaver: thread_id -> state values of the latest checkpoint
    resp,         \* the response of the last handled request
    nreq,         \* number of requests handled so far
    last_count,   \* history: session -> message_count of its last successful /chat
    chat_log,     \* history: session -> the turns of its successful /chat calls, and
                  \* whether anything else has written to the session
    \* ---- Gradio chat page ----
    chatbot,             \* gr.Chatbot value: list of [input, reply]
    user_input,          \* gr.Textbox value
    conversation_state,  \* gr.State value
    agent_type,          \* gr.Dropdown value
    temperature,         \* gr.Slider value (tenths)
    ui_event,            \* the last UI event
    ui_steps,            \* number of UI events so far
    ui_trace,            \* history: the names of the UI events so far, in order
    \* ---- Gradio application shell ----
    tabs,                \* gr.Tabs: id of the selected tab
    \* ---- chat wrappers of the example scripts ----
    session_stats,  \* AsyncLangGraphChatApp.session_stats
    tasks,          \* the AsyncLangGraphChatApp.chat coroutines: position and locals
    wrap_ret,       \* outcome of the last call of a synchronous chat wrapper
    ncalls,         \* number of wrapper calls so far
    \* ---- handlers of the service that span several steps ----
    ws,             \* the WebSocket connection and the position of its handler
    batch,          \* the POST /chat/batch request in flight
    gather,         \* the AsyncLangGraphChatApp.batch_chat call in flight
    \* ---- LCEL memory chains and the advanced chat node ----
    chain,          \* a ManualMemoryChain or WindowMemoryChain object
    adv             \* one session of the advanced chat graph

exVars == <<ex_fn, ex_messages, ex_result, ex_pc>>
apiVars == <<chat_app, store, resp, nreq, last_count, chat_log>>
uiVars ==
    <<chatbot, user_input, conversation_state, agent_type, temperature, ui_event, ui_steps,
      ui_trace>>
navVars == <<tabs>>
wrapVars == <<session_stats, tasks, wrap_ret, ncalls>>
wsVars == <<ws>>
batchVars == <<batch, gather>>
lcelVars == <<chain>>
advVars == <<adv>>
moreVars == <<wsVars, batchVars, lcelVars, advVars>>
vars == <<exVars, apiVars, uiVars, navVars, wrapVars, moreVars>>

-----------------------------------------------------------------------------
(* Bounds *)

\* longest message list handed to the extractor harness
MaxExtractLen == 2
\* number of requests the service handles in one behaviour
MaxRequests == 3
\* number of UI events in one behaviour
MaxUiSteps == 4

-----------------------------------------------------------------------------
(* Python str and dict operations *)

UpperLetters ==
    <<"A","B","C","D","E","F","G","H","I","J","K","L","M",
      "N","O","P","Q","R","S","T","U","V","W","X","Y","Z">>
LowerLetters ==
    <<"a","b","c","d","e","f","g","h","i","j","k","l","m",
      "n","o","p","q","r","s","t","u","v","w","x","y","z">>

\* str.lower() on one character
LowerOf == [i \in 1..Len(UpperLetters) |-> LowerLetters[i]]
UpperIndex(c) == CHOOSE i \in 1..Len(UpperLetters) : UpperLetters[i] = c
UpperSet == {UpperLetters[i] : i \in 1..Len(UpperLetters)}
LowerChar(c) == IF c \in UpperSet THEN LowerOf[UpperIndex(c)] ELSE c

\* str.lower()
Lower(s) == [i \in 1..Len(s) |-> LowerChar(s[i])]

\* Python whitespace, as far as the inputs of the model use it
Whitespace == {" ", "\t", "\n"}

\* sub in s, for a non-empty sub
Contains(sub, s) ==
    \E i \in 1..(Len(s) - Len(sub) + 1) :
        s[i] = sub[1] /\ \A j \in 2..Len(sub) : s[i + j - 1] = sub[j]

\* str.split() with no argument: maximal runs of non-whitespace characters
RECURSIVE SplitFrom(_, _, _, _)
SplitFrom(s, i, cur, acc) ==
    IF i > Len(s)
    THEN IF cur = <<>> THEN acc ELSE Append(acc, cur)
    ELSE IF s[i] \in Whitespace
         THEN SplitFrom(s, i + 1, <<>>, IF cur = <<>> THEN acc ELSE Append(acc, cur))
         ELSE SplitFrom(s, i + 1, Append(cur, s[i]), acc)

Split(s) == SplitFrom(s, 1, <<>>, <<>>)

\* str.strip() with no argument
RECURSIVE LStrip(_)
LStrip(s) == IF s # <<>> /\ Head(s) \in Whitespace THEN LStrip(Tail(s)) ELSE s

RECURSIVE RStrip(_)
RStrip(s) ==
    IF s # <<>> /\ s[Len(s)] \in Whitespace THEN RStrip(SubSeq(s, 1, Len(s) - 1)) ELSE s

Strip(s) == RStrip(LStrip(s))

\* s.replace(c, "") for a one-character c
RemoveChar(s, c) == SelectSeq(s, LAMBDA x : x # c)

\* {}
EmptyDict == [k \in {} |-> <<>>]

\* d[k] = v
DictSet(d, k, v) == [x \in (DOMAIN d) \cup {k} |-> IF x = k THEN v ELSE d[x]]

\* d.update(e)
DictUpdate(d, e) ==
    [x \in (DOMAIN d) \cup (DOMAIN e) |-> IF x \in DOMAIN e THEN e[x] ELSE d[x]]

-----------------------------------------------------------------------------
(* The user-attribute extractor *)

WoJiao == <<"wo", "jiao">>        \* the marker U+6211 U+53EB
WoShi == <<"wo", "shi4">>         \* the marker U+6211 U+662F
XiHuan == <<"xi", "huan">>        \* the marker U+559C U+6B22
NameMarkers == <<WoJiao, WoShi>>

ChengXuYuan == <<"cheng", "xu", "yuan">>
GongChengShi == <<"gong", "cheng", "shi1">>
LaoShi == <<"lao", "shi1">>
YiSheng == <<"yi", "sheng">>
XueSheng == <<"xue", "sheng">>
SheJiShi == <<"she", "ji", "shi1">>
XiaoShou == <<"xiao", "shou">>
JingLi == <<"jing1", "li">>

\* the jobs list of each copy of the extractor
JobsSync == <<ChengXuYuan, GongChengShi, LaoShi, YiSheng, XueSheng>>
JobsAsync == JobsSync \o <<SheJiShi, XiaoShou>>
JobsApi == JobsAsync \o <<JingLi>>

\* the cities list (only the API copy has one)
Cities ==
    << <<"bei", "jing2">>, <<"shang", "hai">>, <<"guang", "zhou">>, <<"shen", "zhen">>,
       <<"hang", "zhou">>, <<"nan", "jing2">>, <<"cheng2", "du">>, <<"wu", "han">> >>

HumanMessage(c) == [type |-> "human", content |-> c]
AIMessage(c) == [type |-> "ai", content |-> c]
SystemMessage(c) == [type |-> "system", content |-> c]

\* the API copy keeps a name only if it is shorter than this
NameLimit == 10

\* for i, word in enumerate(words): if word in [markers] and i + 1 < len(words)
\* the index of the first such word, 0 when the loop ends without one
NameIndex(words) ==
    LET hits == {i \in 1..Len(words) :
                    /\ \E k \in 1..Len(NameMarkers) : words[i] = NameMarkers[k]
                    /\ i + 1 <= Len(words)}
    IN  IF hits = {} THEN 0 ELSE CHOOSE i \in hits : \A j \in hits : i <= j

\* words[i + 1].replace(fullwidth comma, "").replace(",", "")
NameToken(word) == RemoveChar(RemoveChar(word, "fcomma"), ",")

\* the name block; validate is the API copy's "if name and len(name) < 10"
ExtractName(user_info, content, validate) ==
    IF Contains(WoJiao, content) \/ Contains(WoShi, content)
    THEN LET words == Split(content)
             i == NameIndex(words)
         IN  IF i = 0 THEN user_info
             ELSE LET name == NameToken(words[i + 1])
                  IN  IF validate /\ ~(name # <<>> /\ Len(name) < NameLimit)
                      THEN user_info
                      ELSE DictSet(user_info, "name", name)
    ELSE user_info

\* for term in terms: if term in content: ...; break
\* the index of the first term of the list found in content, 0 when there is none
RECURSIVE FirstTerm(_, _, _)
FirstTerm(terms, content, k) ==
    IF k > Len(terms) THEN 0
    ELSE IF Contains(terms[k], content) THEN k
    ELSE FirstTerm(terms, content, k + 1)

\* mutant: the loop over the vocabulary without its break, the last term found wins
ExtractFirst_no_break(user_info, content, terms, key) ==
    LET hits == {k \in 1..Len(terms) : Contains(terms[k], content)}
    IN  IF hits = {} THEN user_info
        ELSE DictSet(user_info, key, terms[CHOOSE k \in hits : \A j \in hits : j <= k])

\* the job block and the location block: user_info[key] = term
ExtractFirst(user_info, content, terms, key) ==
    LET k == FirstTerm(terms, content, 1)
    IN  IF k = 0 THEN user_info ELSE DictSet(user_info, key, terms[k])

\* if marker in content: user_info["interests"] = content
ExtractInterests(user_info, content) ==
    IF Contains(XiHuan, content) THEN DictSet(user_info, "interests", content)
    ELSE user_info

\* mutant: the isinstance(msg, HumanMessage) test left out
ExtractMessage_any_type(user_info, msg, jobs, cities, validate) ==
    LET content == Lower(msg.content)
        u1 == ExtractName(user_info, content, validate)
        u2 == ExtractFirst(u1, content, jobs, "job")
        u3 == ExtractInterests(u2, content)
    IN  ExtractFirst(u3, content, cities, "location")

\* mutant: the .lower() left out
ExtractMessage_no_lower(user_info, msg, jobs, cities, validate) ==
    IF msg.type = "human"
    THEN LET content == msg.content
             u1 == ExtractName(user_info, content, validate)
             u2 == ExtractFirst(u1, content, jobs, "job")
             u3 == ExtractInterests(u2, content)
         IN  ExtractFirst(u3, content, cities, "location")
    ELSE user_info

\* the body of "for msg in messages" for one message
ExtractMessage(user_info, msg, jobs, cities, validate) ==
    IF msg.type = "human"
    THEN LET content == Lower(msg.content)
             u1 == ExtractName(user_info, content, validate)
             u2 == ExtractFirst(u1, content, jobs, "job")
             u3 == ExtractInterests(u2, content)
         IN  ExtractFirst(u3, content, cities, "location")
    ELSE user_info

RECURSIVE ExtractLoop(_, _, _, _, _)
ExtractLoop(user_info, messages, jobs, cities, validate) ==
    IF messages = <<>> THEN user_info
    ELSE ExtractLoop(ExtractMessage(user_info, Head(messages), jobs, cities, validate),
                     Tail(messages), jobs, cities, validate)

\* examples/fastapi_langgraph_memory.py
extract_user_info_async(messages) == ExtractLoop(EmptyDict, messages, JobsApi, Cities, TRUE)

\* examples/langgraph_memory_example.py
extract_user_info(messages) == ExtractLoop(EmptyDict, messages, JobsSync, <<>>, FALSE)

\* examples/async_langgraph_memory.py
extract_user_info_async_stats(messages) ==
    ExtractLoop(EmptyDict, messages, JobsAsync, <<>>, FALSE)

-----------------------------------------------------------------------------
(* Extractor harness: the extractor applied to a bounded set of message lists *)

\* U+4F60 U+597D: no marker at all
TextHello == <<"ni", "hao">>
\* U+6211 U+53EB U+5F20 U+4E09: marker and name written without a space
TextZhangSan == WoJiao \o <<"zhang", "san">>
\* the same with a space after the marker
TextZhangSanSpaced == WoJiao \o <<" ", "zhang", "san">>
\* "wo shi4" + " Al" + full-width comma + job: upper case and a trailing separator
TextAl == WoShi \o <<" ", "A", "l", "fcomma">> \o LaoShi
\* two vocabulary terms, the later one of the list first in the text
TextTwoJobs == YiSheng \o <<" ">> \o ChengXuYuan
\* interest marker with an upper-case letter
TextLikesGo == XiHuan \o <<"G", "o">>
\* marker, a ten-character token
TextLongName == WoJiao \o <<" ", "a", "b", "c", "d", "e", "f", "g", "h", "i", "j">>
\* marker, a token that is only a separator
TextCommaName == WoShi \o <<" ", ",">>
\* a city and a job only the API copy knows
TextManager == JingLi \o <<" ", "shang", "hai">>
\* marker as the last word
TextMarkerLast == <<"ni", "hao", " ">> \o WoJiao

ExtractContents ==
    { <<>>, TextHello, TextZhangSan, TextZhangSanSpaced, TextAl, TextTwoJobs,
      TextLikesGo, TextLongName, TextCommaName, TextManager, TextMarkerLast }

\* what an assistant or system message may say: with and without markers
OtherContents == { TextHello, TextAl, TextLikesGo }

ExtractInputs ==
    { HumanMessage(c) : c \in ExtractContents }
        \cup { AIMessage(c) : c \in OtherContents }
        \cup { SystemMessage(c) : c \in OtherContents }

RECURSIVE SeqsUpTo(_, _)
SeqsUpTo(S, n) ==
    IF n = 0 THEN { <<>> }
    ELSE LET shorter == SeqsUpTo(S, n - 1)
         IN  shorter \cup { Append(q, x) : q \in shorter, x \in S }

ExtractorCopies == {"api", "sync", "async"}

ExIdle ==
    /\ ex_fn = "api"
    /\ ex_messages = <<>>
    /\ ex_result = EmptyDict
    /\ ex_pc = "idle"

ExInit ==
    /\ ex_fn \in ExtractorCopies
    /\ ex_messages \in SeqsUpTo(ExtractInputs, MaxExtractLen)
    /\ ex_result = EmptyDict
    /\ ex_pc = "call"

CallExtractApi ==
    /\ ex_pc = "call" /\ ex_fn = "api"
    /\ ex_result' = extract_user_info_async(ex_messages)
    /\ ex_pc' = "done"
    /\ UNCHANGED <<ex_fn, ex_messages>>

CallExtractSync ==
    /\ ex_pc = "call" /\ ex_fn = "sync"
    /\ ex_result' = extract_user_info(ex_messages)
    /\ ex_pc' = "done"
    /\ UNCHANGED <<ex_fn, ex_messages>>

CallExtractAsync ==
    /\ ex_pc = "call" /\ ex_fn = "async"
    /\ ex_result' = extract_user_info_async_stats(ex_messages)
    /\ ex_pc' = "done"
    /\ UNCHANGED <<ex_fn, ex_messages>>

-----------------------------------------------------------------------------
(* The FastAPI service: examples/fastapi_langgraph_memory.py *)

\* session ids a client makes up, and the strings str(uuid.uuid4()) can return
ClientIds == {"alice"}
UUIDs == {"uuid-1", "uuid-2"}
ThreadIds == ClientIds \cup UUIDs

\* the most messages of one batch request
MaxBatch == 2

\* the most requests handled next to batch requests
MaxBatchRequests == 2

\* f"{session_id}_batch_{i}"
SubSessionId(session_id, i) == session_id \o "_batch_" \o ToString(i)

\* the thread ids the batch endpoint derives from the session ids
BatchThreadIds == {SubSessionId(s, i) : s \in ThreadIds, i \in 0..(MaxBatch - 1)}

\* every thread id the MemorySaver is asked for
MemoryKeys == ThreadIds \cup BatchThreadIds

\* Optional[str]: <<>> is None, <<s>> is the string s
None == <<>>
Some(s) == <<s>>
RequestSessionIds == {None, Some("")} \cup {Some(t) : t \in ThreadIds}

\* bool(x) of an Optional[str]
Truthy(opt) == opt # None /\ opt[1] # ""

\* request bodies of POST /chat
ChatTexts == { <<>>, TextAl, WoJiao \o <<" ", "B", "o", " ">> \o XiHuan \o <<"G", "o">> }

\* what llm.invoke can return; a reply may itself contain markers
LlmReplies == { WoShi \o <<" ", "b", "o", "t", " ">> \o YiSheng }

\* d.get(k, default)
DictGet(d, k, default) == IF k \in DOMAIN d THEN d[k] ELSE default

\* state.values of a thread that has no checkpoint
NoValues == EmptyDict

\* mutant: the reducer puts the new message in front of the stored ones
ApplyInput_prepends(values, text) ==
    DictSet(values, "messages",
            <<HumanMessage(text)>> \o DictGet(values, "messages", <<>>))

\* the add_messages reducer applied to the input {"messages": [HumanMessage]}
ApplyInput(values, text) ==
    DictSet(values, "messages",
            Append(DictGet(values, "messages", <<>>), HumanMessage(text)))

\* mutant: the stored list is trimmed the way advanced_chatbot_node trims the model
\* input, here to the last two messages once there are more than four
api_chatbot_node_trims(state, reply) ==
    LET messages == state["messages"]
        kept == IF Len(messages) > 4
                THEN SubSeq(messages, Len(messages) - 1, Len(messages))
                ELSE messages
    IN  DictSet(DictSet(state, "messages", Append(kept, AIMessage(reply))),
                "user_info",
                DictUpdate(DictGet(state, "user_info", EmptyDict),
                           extract_user_info_async(messages)))

\* mutant: the update the other way round, what is already stored wins
api_chatbot_node_keeps_old(state, reply) ==
    LET user_info == extract_user_info_async(state["messages"])
        existing_user_info == DictUpdate(user_info, DictGet(state, "user_info", EmptyDict))
    IN  DictSet(DictSet(state, "messages", Append(state["messages"], AIMessage(reply))),
                "user_info", existing_user_info)

\* mutant: user_info is what the newest message alone yields
api_chatbot_node_newest_only(state, reply) ==
    LET messages == state["messages"]
        user_info == extract_user_info_async(SubSeq(messages, Len(messages),
                                                    Len(messages)))
    IN  DictSet(DictSet(state, "messages", Append(state["messages"], AIMessage(reply))),
                "user_info", user_info)

\* api_chatbot_node followed by the channel update of its return value
api_chatbot_node(state, reply) ==
    LET user_info == extract_user_info_async(state["messages"])
        existing_user_info == DictUpdate(DictGet(state, "user_info", EmptyDict), user_info)
    IN  DictSet(DictSet(state, "messages", Append(state["messages"], AIMessage(reply))),
                "user_info", existing_user_info)

\* api_chatbot_node: messages = [system_message] + state["messages"], the system
\* message being fixed text around the merged user_info
LlmInput(state, existing_user_info) ==
    <<SystemMessage(existing_user_info)>> \o state["messages"]

\* chat_app.ainvoke(input, config): the state values after START -> chatbot -> END
ainvoke(values, text, reply) == api_chatbot_node(ApplyInput(values, text), reply)

NoId == "-"

\* the fields of the ChatResponse model
ChatResponseFields ==
    {"response", "session_id", "user_info", "processing_time", "message_count"}

\* the last response with the request it answers; fields holds the keys of the
\* body, invocations counts the graph calls the handler made, llm_input is the
\* message list the graph call handed to llm.invoke, messages is the list a history
\* response carries, req_messages and responses are the lists of a batch request and
\* of its response, detail is the fixed part of the detail of an HTTPException
NoResponse ==
    [op |-> "none", status |-> 0, req_session_id |-> None, req_message |-> <<>>,
     session_id |-> NoId, response |-> <<>>, user_info |-> EmptyDict,
     message_count |-> 0, new_session_id |-> NoId,
     fields |-> {}, invocations |-> 0, llm_input |-> <<>>, messages |-> <<>>,
     req_messages |-> <<>>, responses |-> <<>>, detail |-> ""]

\* ChatResponse
ChatResponse(req_sid, text, sid, result, count) ==
    [NoResponse EXCEPT !.op = "chat", !.status = 200, !.req_session_id = req_sid,
                       !.req_message = text, !.session_id = sid,
                       !.response = result["messages"][Len(result["messages"])].content,
                       !.user_info = DictGet(result, "user_info", EmptyDict),
                       !.message_count = count,
                       !.fields = ChatResponseFields, !.invocations = 1]

\* the fixed texts of the details: U+804A U+5929 U+5E94 U+7528 U+672A U+521D U+59CB
\* U+5316 (chat application not initialized), U+4F1A U+8BDD U+4E0D U+5B58 U+5728
\* (session does not exist), and the prefixes put before str(e) by chat,
\* get_conversation_history, get_session_info and batch_chat
DetailUninitialized == "liao tian ying yong wei chu shi hua"
DetailNotFound == "hui hua bu cun zai"
DetailChatFailed == "liao tian chu li shi bai: "
DetailHistoryFailed == "huo qu dui hua li shi shi bai: "
DetailInfoFailed == "huo qu hui hua xin xi shi bai: "
DetailBatchFailed == "pi liang chu li shi bai: "

\* str(e) of what chat_app.aget_state raises, and of the HTTPException of a session
\* that does not exist
StateError == "refused"
NotFoundError == "404: " \o DetailNotFound

\* HTTPException(status_code=..., detail=...)
HTTPException(op, code, detail, req_sid, text) ==
    [NoResponse EXCEPT !.op = op, !.status = code, !.detail = detail,
                       !.req_session_id = req_sid, !.req_message = text]

ApiIdle ==
    /\ chat_app = FALSE
    /\ store = [t \in MemoryKeys |-> NoValues]
    /\ resp = NoResponse
    /\ nreq = 0
    /\ last_count = [t \in MemoryKeys |-> 0]
    /\ chat_log = [t \in MemoryKeys |-> [turns |-> <<>>, other |-> FALSE]]

\* mutant: the graph is created before the connectivity test
Lifespan_creates_graph_first ==
    /\ chat_app = FALSE
    /\ nreq = 0
    /\ \E connected \in BOOLEAN :
          /\ chat_app' = TRUE
          /\ resp' = [NoResponse EXCEPT !.op = "startup",
                                        !.status = IF connected THEN 200 ELSE 500]
    /\ UNCHANGED <<store, nreq, last_count, chat_log>>

\* lifespan: the connectivity test, then chat_app = create_api_chat_graph()
Lifespan ==
    /\ chat_app = FALSE
    /\ nreq = 0
    /\ \E connected \in BOOLEAN :
          /\ chat_app' = connected
          /\ resp' = [NoResponse EXCEPT !.op = "startup",
                                        !.status = IF connected THEN 200 ELSE 500]
    /\ UNCHANGED <<store, nreq, last_count, chat_log>>

\* mutant: a fresh identifier for every request
SessionIdOf_always_new(req_sid) == UUIDs

\* request.session_id or str(uuid.uuid4()): the values the expression can have
SessionIdOf(req_sid) == IF Truthy(req_sid) THEN {req_sid[1]} ELSE UUIDs

\* POST /chat while chat_app is None
ChatUninitialized(req_sid, text) ==
    /\ ~chat_app
    /\ resp' = HTTPException("chat", 500, DetailUninitialized, req_sid, text)
    /\ UNCHANGED <<chat_app, store, last_count, chat_log>>

\* mutant: the graph runs on the checkpoint of one fixed thread whatever the
\* session of the request
ChatOk_shared_thread(req_sid, text, session_id, reply) ==
    /\ chat_app
    /\ \E shared \in {CHOOSE t \in ClientIds : TRUE} :
       \E result \in {ainvoke(store[shared], text, reply)} :
       LET message_count == Len(DictGet(result, "messages", <<>>))
       IN  /\ store' = [store EXCEPT ![session_id] = result]
           /\ resp' = [ChatResponse(req_sid, text, session_id, result, message_count)
                          EXCEPT !.llm_input =
                                     LlmInput(ApplyInput(store[shared], text),
                                              result["user_info"])]
           /\ last_count' = [last_count EXCEPT ![session_id] = message_count]
    /\ chat_log' = [chat_log EXCEPT ![session_id].turns = Append(@, <<text, reply>>)]
    /\ UNCHANGED chat_app

\* POST /chat, the graph call and the state query succeed
ChatOk(req_sid, text, session_id, reply) ==
    /\ chat_app
    /\ \E result \in {ainvoke(store[session_id], text, reply)} :
       LET message_count == Len(DictGet(result, "messages", <<>>))
       IN  /\ store' = [store EXCEPT ![session_id] = result]
           /\ resp' = [ChatResponse(req_sid, text, session_id, result, message_count)
                          EXCEPT !.llm_input =
                                     LlmInput(ApplyInput(store[session_id], text),
                                              result["user_info"])]
           /\ last_count' = [last_count EXCEPT ![session_id] = message_count]
    /\ chat_log' = [chat_log EXCEPT ![session_id].turns = Append(@, <<text, reply>>)]
    /\ UNCHANGED chat_app

\* mutant: the handler calls the graph a second time when the first call raised
ChatFails_retries(req_sid, text, session_id, input_saved) ==
    /\ chat_app
    /\ store' = IF input_saved
                THEN [store EXCEPT ![session_id] =
                         ApplyInput(ApplyInput(store[session_id], text), text)]
                ELSE store
    /\ resp' = [HTTPException("chat", 500, DetailChatFailed, req_sid, text)
                   EXCEPT !.invocations = 2]
    /\ chat_log' = IF input_saved
                   THEN [chat_log EXCEPT ![session_id].other = TRUE]
                   ELSE chat_log
    /\ UNCHANGED <<chat_app, last_count>>

\* POST /chat, llm.invoke raises inside the graph: the handler answers 500.  Whether
\* the checkpointer has already saved the input turn is the library's business, so
\* both outcomes are allowed.
ChatFails(req_sid, text, session_id, input_saved) ==
    /\ chat_app
    /\ store' = IF input_saved
                THEN [store EXCEPT ![session_id] = ApplyInput(store[session_id], text)]
                ELSE store
    /\ resp' = [HTTPException("chat", 500, DetailChatFailed, req_sid, text)
                   EXCEPT !.invocations = 1]
    /\ chat_log' = IF input_saved
                   THEN [chat_log EXCEPT ![session_id].other = TRUE]
                   ELSE chat_log
    /\ UNCHANGED <<chat_app, last_count>>

\* POST /chat, the graph call succeeds and chat_app.aget_state raises: the turn is
\* stored, the handler answers 500
ChatStateFails(req_sid, text, session_id, reply) ==
    /\ chat_app
    /\ \E result \in {ainvoke(store[session_id], text, reply)} :
          store' = [store EXCEPT ![session_id] = result]
    /\ resp' = [HTTPException("chat", 500, DetailChatFailed, req_sid, text)
                   EXCEPT !.invocations = 1]
    /\ chat_log' = [chat_log EXCEPT ![session_id].other = TRUE]
    /\ UNCHANGED <<chat_app, last_count>>

\* POST /chat on the MemorySaver checkpointer, whose state query does not raise
Chat ==
    /\ nreq < MaxRequests
    /\ nreq' = nreq + 1
    /\ \E req_sid \in RequestSessionIds, text \in ChatTexts :
          \/ ChatUninitialized(req_sid, text)
          \/ \E session_id \in SessionIdOf(req_sid) :
                \/ \E reply \in LlmReplies : ChatOk(req_sid, text, session_id, reply)
                \/ \E input_saved \in BOOLEAN :
                      ChatFails(req_sid, text, session_id, input_saved)

\* mutant: clear erases the conversation of the session
clear_session_erases(session_id, uuid4) ==
    /\ resp' = [NoResponse EXCEPT !.op = "clear", !.status = 200,
                                  !.session_id = session_id, !.new_session_id = uuid4,
                                  !.fields = {"message", "old_session_id",
                                              "new_session_id"}]
    /\ store' = [store EXCEPT ![session_id] = NoValues]
    /\ chat_log' = [chat_log EXCEPT ![session_id].other = TRUE]
    /\ UNCHANGED <<chat_app, last_count>>

\* the body of clear_session
clear_session(session_id, uuid4) ==
    /\ resp' = [NoResponse EXCEPT !.op = "clear", !.status = 200,
                                  !.session_id = session_id, !.new_session_id = uuid4,
                                  !.fields = {"message", "old_session_id",
                                              "new_session_id"}]
    /\ UNCHANGED <<chat_app, store, last_count, chat_log>>

\* POST /sessions/{session_id}/clear
ClearSession ==
    /\ nreq < MaxRequests
    /\ nreq' = nreq + 1
    /\ \E session_id \in ThreadIds, uuid4 \in UUIDs : clear_session(session_id, uuid4)

\* mutant: delete drops the checkpoint of the session
delete_session_erases(session_id) ==
    /\ resp' = [NoResponse EXCEPT !.op = "delete", !.status = 200,
                                  !.session_id = session_id, !.fields = {"message"}]
    /\ store' = [store EXCEPT ![session_id] = NoValues]
    /\ chat_log' = [chat_log EXCEPT ![session_id].other = TRUE]
    /\ UNCHANGED <<chat_app, last_count>>

\* the body of delete_session
delete_session(session_id) ==
    /\ resp' = [NoResponse EXCEPT !.op = "delete", !.status = 200,
                                  !.session_id = session_id, !.fields = {"message"}]
    /\ UNCHANGED <<chat_app, store, last_count, chat_log>>

\* DELETE /sessions/{session_id}
DeleteSession ==
    /\ nreq < MaxRequests
    /\ nreq' = nreq + 1
    /\ \E session_id \in ThreadIds : delete_session(session_id)

\* the requests of the endpoint walk: two texts, an absent and a client-named id
EndpointTexts == {TextAl, TextManager}

EndpointSessionIds == {None, Some("alice")}

\* POST /chat with every exit of the handler, the failing state query included, for
\* requests that carry one of the given session ids
ChatAnyExitOn(req_sids) ==
    /\ nreq < MaxRequests
    /\ nreq' = nreq + 1
    /\ \E req_sid \in req_sids, text \in EndpointTexts :
          \/ ChatUninitialized(req_sid, text)
          \/ \E session_id \in SessionIdOf(req_sid) :
                \/ \E reply \in LlmReplies : ChatOk(req_sid, text, session_id, reply)
                \/ \E reply \in LlmReplies :
                      ChatStateFails(req_sid, text, session_id, reply)
                \/ \E input_saved \in BOOLEAN :
                      ChatFails(req_sid, text, session_id, input_saved)

ChatAnyExit == ChatAnyExitOn(EndpointSessionIds)

\* "user" if isinstance(msg, HumanMessage) else "assistant"
RoleOf(msg) == IF msg = HumanMessage(msg.content) THEN "user" ELSE "assistant"

\* formatted_messages
FormatMessages(messages) ==
    [i \in 1..Len(messages) |-> [role |-> RoleOf(messages[i]),
                                 content |-> messages[i].content]]

\* the fields of the ConversationHistory and SessionInfo models
ConversationHistoryFields == {"session_id", "messages", "user_info", "created_at"}

SessionInfoFields == {"session_id", "message_count", "user_info", "last_activity"}

\* the body of get_conversation_history; state_raises: chat_app.aget_state raises
get_conversation_history(session_id, state_raises) ==
    /\ resp' = IF ~chat_app
               THEN HTTPException("history", 500, DetailUninitialized,
                                  Some(session_id), <<>>)
               ELSE IF state_raises
               THEN HTTPException("history", 500, DetailHistoryFailed \o StateError,
                                  Some(session_id), <<>>)
               ELSE [NoResponse EXCEPT
                        !.op = "history", !.status = 200,
                        !.req_session_id = Some(session_id),
                        !.session_id = session_id,
                        !.messages = FormatMessages(DictGet(store[session_id],
                                                            "messages", <<>>)),
                        !.user_info = DictGet(store[session_id], "user_info", EmptyDict),
                        !.fields = ConversationHistoryFields]
    /\ UNCHANGED <<chat_app, store, last_count, chat_log>>

\* GET /conversations/{session_id}
GetConversationHistory ==
    /\ nreq < MaxRequests
    /\ nreq' = nreq + 1
    /\ \E session_id \in ThreadIds, state_raises \in BOOLEAN :
          get_conversation_history(session_id, state_raises)

\* mutant: the 404 is caught by the handler of Exception and answered as a 500
get_session_info_converts_404(session_id, state_raises) ==
    /\ resp' = IF ~chat_app
               THEN HTTPException("info", 500, DetailUninitialized,
                                  Some(session_id), <<>>)
               ELSE IF state_raises
               THEN HTTPException("info", 500, DetailInfoFailed \o StateError,
                                  Some(session_id), <<>>)
               ELSE IF store[session_id] = NoValues
               THEN HTTPException("info", 500, DetailInfoFailed \o NotFoundError,
                                  Some(session_id), <<>>)
               ELSE [NoResponse EXCEPT
                        !.op = "info", !.status = 200,
                        !.req_session_id = Some(session_id),
                        !.session_id = session_id,
                        !.message_count = Len(DictGet(store[session_id],
                                                      "messages", <<>>)),
                        !.user_info = DictGet(store[session_id], "user_info", EmptyDict),
                        !.fields = SessionInfoFields]
    /\ UNCHANGED <<chat_app, store, last_count, chat_log>>

\* the body of get_session_info: 404 for a thread without a checkpoint
get_session_info(session_id, state_raises) ==
    /\ resp' = IF ~chat_app
               THEN HTTPException("info", 500, DetailUninitialized,
                                  Some(session_id), <<>>)
               ELSE IF state_raises
               THEN HTTPException("info", 500, DetailInfoFailed \o StateError,
                                  Some(session_id), <<>>)
               ELSE IF store[session_id] = NoValues
               THEN HTTPException("info", 404, DetailNotFound, Some(session_id), <<>>)
               ELSE [NoResponse EXCEPT
                        !.op = "info", !.status = 200,
                        !.req_session_id = Some(session_id),
                        !.session_id = session_id,
                        !.message_count = Len(DictGet(store[session_id],
                                                      "messages", <<>>)),
                        !.user_info = DictGet(store[session_id], "user_info", EmptyDict),
                        !.fields = SessionInfoFields]
    /\ UNCHANGED <<chat_app, store, last_count, chat_log>>

\* GET /sessions/{session_id}/info
GetSessionInfo ==
    /\ nreq < MaxRequests
    /\ nreq' = nreq + 1
    /\ \E session_id \in ThreadIds, state_raises \in BOOLEAN :
          get_session_info(session_id, state_raises)

\* websocket.send_json({"error": ...})
ErrorFrame(session_id, data) ==
    [NoResponse EXCEPT !.op = "ws", !.req_session_id = Some(session_id),
                       !.req_message = data, !.fields = {"error"}]

\* one pass of the loop of websocket_chat on a connection opened at /ws/{session_id}:
\* a text frame is received and answered.  graph_raises: ainvoke raises, with the
\* input turn saved or not.
websocket_chat(session_id, data, reply, graph_raises, input_saved) ==
    IF ~chat_app
    THEN /\ resp' = ErrorFrame(session_id, data)
         /\ UNCHANGED <<chat_app, store, last_count, chat_log>>
    ELSE IF graph_raises
    THEN /\ store' = IF input_saved
                     THEN [store EXCEPT
                              ![session_id] = ApplyInput(store[session_id], data)]
                     ELSE store
         /\ resp' = [ErrorFrame(session_id, data) EXCEPT !.invocations = 1]
         /\ chat_log' = IF input_saved
                        THEN [chat_log EXCEPT ![session_id].other = TRUE]
                        ELSE chat_log
         /\ UNCHANGED <<chat_app, last_count>>
    ELSE /\ \E result \in {ainvoke(store[session_id], data, reply)} :
              /\ store' = [store EXCEPT ![session_id] = result]
              /\ resp' = [NoResponse EXCEPT
                             !.op = "ws", !.status = 200,
                             !.req_session_id = Some(session_id),
                             !.req_message = data,
                             !.response =
                                 result["messages"][Len(result["messages"])].content,
                             !.user_info = DictGet(result, "user_info", EmptyDict),
                             !.session_id = session_id,
                             !.fields = {"response", "user_info", "session_id"},
                             !.invocations = 1,
                             !.llm_input =
                                 LlmInput(ApplyInput(store[session_id], data),
                                          result["user_info"])]
         /\ chat_log' = [chat_log EXCEPT ![session_id].other = TRUE]
         /\ UNCHANGED <<chat_app, last_count>>

\* a text frame on /ws/{session_id}
WebsocketChat ==
    /\ nreq < MaxRequests
    /\ nreq' = nreq + 1
    /\ \E session_id \in ThreadIds, data \in EndpointTexts, reply \in LlmReplies,
          graph_raises \in BOOLEAN, input_saved \in BOOLEAN :
          /\ (input_saved => graph_raises)
          /\ websocket_chat(session_id, data, reply, graph_raises, input_saved)

-----------------------------------------------------------------------------
(* The Gradio chat page: app/ui/pages/chat_page.py *)

\* the choices of the agent_type dropdown, in English
AgentTypes == {"chat agent", "search agent", "reasoning agent"}

\* slider positions the model uses, in tenths (minimum, default, maximum)
Temperatures == {0, 7, 10}

\* what the user can type into the textbox
UiTexts == { <<>>, <<" ">>, <<"\n", " ">>, <<"h", "i">>, <<" ", "o", "k", " ">> }

\* the f-string reply: fixed text around these three values
MockReply(text, agent, temp) == [agent_type |-> agent, temperature |-> temp, input |-> text]

NoEvent == [name |-> "none", arg |-> <<>>]

UiInit ==
    /\ chatbot = <<>>
    /\ user_input = <<>>
    /\ conversation_state = EmptyDict
    /\ agent_type = "chat agent"
    /\ temperature = 7
    /\ ui_event = NoEvent
    /\ ui_steps = 0
    /\ ui_trace = <<>>

UiIdle == UiInit

\* mutant: the text stays in the input field after a send
mock_chat_response_keeps_input(text, history, state, agent, temp) ==
    IF Strip(text) = <<>>
    THEN <<history, <<>>, state>>
    ELSE <<Append(history, <<text, MockReply(text, agent, temp)>>),
           text,
           DictSet(DictSet(state, "last_input", text), "last_agent", agent)>>

\* mutant: "if not user_input" without the strip()
mock_chat_response_no_strip(text, history, state, agent, temp) ==
    IF text = <<>>
    THEN <<history, <<>>, state>>
    ELSE <<Append(history, <<text, MockReply(text, agent, temp)>>),
           <<>>,
           DictSet(DictSet(state, "last_input", text), "last_agent", agent)>>

\* mock_chat_response: the returned (history, user_input, state)
mock_chat_response(text, history, state, agent, temp) ==
    IF Strip(text) = <<>>
    THEN <<history, <<>>, state>>
    ELSE <<Append(history, <<text, MockReply(text, agent, temp)>>),
           <<>>,
           DictSet(DictSet(state, "last_input", text), "last_agent", agent)>>

UiStep(name, arg) ==
    /\ ui_steps < MaxUiSteps
    /\ ui_steps' = ui_steps + 1
    /\ ui_event' = [name |-> name, arg |-> arg]
    /\ ui_trace' = Append(ui_trace, name)

\* the user edits the textbox
TypeText ==
    \E text \in UiTexts :
        /\ UiStep("type", text)
        /\ user_input' = text
        /\ UNCHANGED <<chatbot, conversation_state, agent_type, temperature>>

\* the user picks an agent type
SelectAgent ==
    \E agent \in AgentTypes :
        /\ UiStep("agent", <<>>)
        /\ agent_type' = agent
        /\ UNCHANGED <<chatbot, user_input, conversation_state, temperature>>

\* the user moves the temperature slider
MoveSlider ==
    \E temp \in Temperatures :
        /\ UiStep("slider", <<>>)
        /\ temperature' = temp
        /\ UNCHANGED <<chatbot, user_input, conversation_state, agent_type>>

\* submit_btn.click
SubmitClick ==
    /\ UiStep("submit", user_input)
    /\ \E out \in {mock_chat_response(user_input, chatbot, conversation_state,
                                      agent_type, temperature)} :
          /\ chatbot' = out[1]
          /\ user_input' = out[2]
          /\ conversation_state' = out[3]
    /\ UNCHANGED <<agent_type, temperature>>

\* mutant: clear keeps the conversation state
ClearClick_keeps_state ==
    /\ UiStep("clear", <<>>)
    /\ chatbot' = <<>>
    /\ user_input' = <<>>
    /\ UNCHANGED <<conversation_state, agent_type, temperature>>

\* clear_btn.click: lambda: ([], "", {})
ClearClick ==
    /\ UiStep("clear", <<>>)
    /\ chatbot' = <<>>
    /\ user_input' = <<>>
    /\ conversation_state' = EmptyDict
    /\ UNCHANGED <<agent_type, temperature>>

-----------------------------------------------------------------------------
(* The application shell: app/ui/app.py *)

\* the ids of the three gr.Tab children
TabIds == {"home", "chat", "about"}

\* gr.Tabs(selected="home")
NavIdle == tabs = "home"

\* mutant: every navigation button selects the home tab
NavClick_always_home(id) ==
    /\ UiStep("nav", id)
    /\ tabs' = "home"
    /\ UNCHANGED <<chatbot, user_input, conversation_state, agent_type, temperature>>

\* home_btn.click, chat_btn.click, about_btn.click: lambda: gr.update(selected=id)
NavClick(id) ==
    /\ UiStep("nav", id)
    /\ tabs' = id
    /\ UNCHANGED <<chatbot, user_input, conversation_state, agent_type, temperature>>

HomeClick == NavClick("home")

ChatClick == NavClick("chat")

AboutClick == NavClick("about")

\* the user picks a tab in the tab bar of gr.Tabs
TabSelect ==
    \E id \in TabIds :
        /\ UiStep("tab", id)
        /\ tabs' = id
        /\ UNCHANGED <<chatbot, user_input, conversation_state, agent_type, temperature>>

-----------------------------------------------------------------------------
(* The chat wrappers of the example scripts *)

\* calls of the wrappers, synchronous and asynchronous together
MaxCalls == 3

\* the coroutines of AsyncLangGraphChatApp.chat, numbered as they are created
Tasks == 1..MaxCalls

SessionKeys == {"default", "user_1"}

WrapTexts == {TextHello}

\* str(e) of what the graph call can raise
GraphErrors == { <<>>, <<"r", "e", "f", "u", "s", "e", "d">> }

\* loop-clock differences, in ticks
Durations == {1, 2}

\* U+62B1 U+6B49 U+FF0C U+6211 U+9047 U+5230 U+4E86 U+4E00 U+4E2A U+9519 U+8BEF ": "
SorryPrefix ==
    <<"bao", "qian", "fcomma", "wo", "yu", "dao", "le", "yi", "ge", "cuo", "wu4",
      ":", " ">>

\* U+274C " " U+804A U+5929 U+5931 U+8D25 ": "
RedisFailPrefix == <<"xmark", " ", "liao", "tian", "shi1", "bai", ":", " ">>

\* U+274C " " U+804A U+5929 U+5E94 U+7528 U+672A U+521D U+59CB U+5316
RedisUninitialized ==
    <<"xmark", " ", "liao", "tian", "ying", "yong", "wei", "chu", "shi3", "hua">>

\* what app.invoke / app.ainvoke hands to the wrapper: it raises an exception e, or
\* returns a result whose last message is the reply.  The checkpoints of the graph
\* are the library's and are not seen by the wrappers.
GraphOutcomes ==
    [raises : {TRUE}, e : GraphErrors, reply : {<<>>}, user_info : {EmptyDict}]
    \cup [raises : {FALSE}, e : {<<>>}, reply : LlmReplies,
          user_info : {EmptyDict, [name |-> <<"A", "l">>]}]

\* a returned value or an exception that leaves the function
Return(value) == [kind |-> "return", value |-> value]

Raise(e) == [kind |-> "raise", value |-> e]

\* mutant: the graph call outside of any try block
LangGraphChatApp_chat_no_except(outcome) ==
    IF outcome.raises
    THEN Raise(outcome.e)
    ELSE Return(outcome.reply)

\* LangGraphChatApp.chat
LangGraphChatApp_chat(outcome) ==
    IF outcome.raises
    THEN Return(SorryPrefix \o outcome.e)
    ELSE Return(outcome.reply)

\* chat(app, message, session_id) of the Redis demo; app_none: app is None
redis_chat(app_none, outcome) ==
    IF app_none
    THEN Return(RedisUninitialized)
    ELSE IF outcome.raises
    THEN Return(RedisFailPrefix \o outcome.e)
    ELSE Return(outcome.reply)

\* no graph call was made
NoOutcome == [raises |-> FALSE, e |-> <<>>, reply |-> <<>>, user_info |-> EmptyDict]

\* a coroutine that has not been created; outcome records how its graph call ended
NoTask ==
    [pc |-> "idle", session_id |-> NoId, message |-> <<>>, outcome |-> NoOutcome,
     ret |-> Return(EmptyDict)]

NoCall ==
    [fn |-> "none", session_id |-> NoId, app_none |-> FALSE, outcome |-> NoOutcome,
     ret |-> Return(<<>>)]

WrapIdle ==
    /\ session_stats = EmptyDict
    /\ tasks = [t \in Tasks |-> NoTask]
    /\ wrap_ret = NoCall
    /\ ncalls = 0

\* total_time / message_count, kept as the exact fraction
Ratio(a, b) == <<a, b>>

\* the statistics update of AsyncLangGraphChatApp.chat
update_session_stats(stats_map, session_id, total_time) ==
    LET stats == DictGet(stats_map, session_id,
                         [message_count |-> 0, total_time |-> 0, avg_time |-> 0])
        count == stats.message_count + 1
        total == stats.total_time + total_time
    IN  DictSet(stats_map, session_id,
                [message_count |-> count, total_time |-> total,
                 avg_time |-> Ratio(total, count)])

\* AsyncLangGraphChatApp.chat up to its await: the coroutine is suspended in
\* self.app.ainvoke
chat_suspend(ts, t, message, session_id) ==
    [ts EXCEPT ![t] = [NoTask EXCEPT !.pc = "awaiting", !.session_id = session_id,
                                     !.message = message]]

\* mutant: the statistics are computed from the mapping as it was when the
\* application was created, as a read placed before the await can see it
chat_resume_stale(stats_map, ts, t, outcome, total_time) ==
    IF outcome.raises
    THEN <<stats_map,
           [ts EXCEPT ![t].pc = "done", ![t].outcome = outcome,
                      ![t].ret = Return([response |-> SorryPrefix \o outcome.e,
                                         error |-> TRUE])]>>
    ELSE LET stale == update_session_stats(EmptyDict, ts[t].session_id, total_time)
             new_stats == DictSet(stats_map, ts[t].session_id, stale[ts[t].session_id])
         IN  <<new_stats,
               [ts EXCEPT ![t].pc = "done", ![t].outcome = outcome,
                          ![t].ret = Return([response |-> outcome.reply,
                                             user_info |-> outcome.user_info,
                                             total_time |-> total_time,
                                             session_stats |->
                                                 new_stats[ts[t].session_id]])]>>

\* AsyncLangGraphChatApp.chat from the return of its await to its return statement:
\* no other await lies in between, so the event loop runs it as one step.  The value
\* is the pair of the new session_stats and the new coroutine table.
chat_resume(stats_map, ts, t, outcome, total_time) ==
    IF outcome.raises
    THEN <<stats_map,
           [ts EXCEPT ![t].pc = "done", ![t].outcome = outcome,
                      ![t].ret = Return([response |-> SorryPrefix \o outcome.e,
                                         error |-> TRUE])]>>
    ELSE LET new_stats == update_session_stats(stats_map, ts[t].session_id, total_time)
         IN  <<new_stats,
               [ts EXCEPT ![t].pc = "done", ![t].outcome = outcome,
                          ![t].ret = Return([response |-> outcome.reply,
                                             user_info |-> outcome.user_info,
                                             total_time |-> total_time,
                                             session_stats |->
                                                 new_stats[ts[t].session_id]])]>>

\* a caller creates a coroutine of AsyncLangGraphChatApp.chat and it runs to its await
AsyncChatSuspend ==
    /\ ncalls < MaxCalls
    /\ ncalls' = ncalls + 1
    /\ \E message \in WrapTexts, session_id \in SessionKeys :
        LET t == Cardinality({u \in Tasks : tasks[u].pc # "idle"}) + 1
        IN  tasks' = chat_suspend(tasks, t, message, session_id)
    /\ UNCHANGED <<session_stats, wrap_ret>>

\* the event loop resumes a suspended coroutine with the outcome of the graph call
AsyncChatResume ==
    \E t \in Tasks, outcome \in GraphOutcomes, total_time \in Durations :
        /\ tasks[t].pc = "awaiting"
        /\ \E out \in {chat_resume(session_stats, tasks, t, outcome, total_time)} :
              /\ session_stats' = out[1]
              /\ tasks' = out[2]
        /\ UNCHANGED <<wrap_ret, ncalls>>

\* mutant: the lookup stores a fresh entry for a session that has none
GetSessionStats_creates_entry ==
    /\ ncalls < MaxCalls
    /\ ncalls' = ncalls + 1
    /\ \E session_id \in SessionKeys :
          /\ session_stats' =
                 IF session_id \in DOMAIN session_stats
                 THEN session_stats
                 ELSE DictSet(session_stats, session_id,
                              [message_count |-> 0, total_time |-> 0, avg_time |-> 0])
          /\ wrap_ret' = [NoCall EXCEPT
                             !.fn = "AsyncLangGraphChatApp.get_session_stats",
                             !.session_id = session_id,
                             !.ret = Return(session_stats'[session_id])]
    /\ UNCHANGED tasks

\* a call of AsyncLangGraphChatApp.get_session_stats:
\* self.session_stats.get(session_id, {})
GetSessionStats ==
    /\ ncalls < MaxCalls
    /\ ncalls' = ncalls + 1
    /\ \E session_id \in SessionKeys :
          wrap_ret' = [NoCall EXCEPT
                          !.fn = "AsyncLangGraphChatApp.get_session_stats",
                          !.session_id = session_id,
                          !.ret = Return(DictGet(session_stats, session_id, EmptyDict))]
    /\ UNCHANGED <<session_stats, tasks>>

\* a call of LangGraphChatApp.chat
SyncChat ==
    /\ ncalls < MaxCalls
    /\ ncalls' = ncalls + 1
    /\ \E outcome \in GraphOutcomes :
          wrap_ret' = [fn |-> "LangGraphChatApp.chat", session_id |-> NoId,
                       app_none |-> FALSE,
                       outcome |-> outcome, ret |-> LangGraphChatApp_chat(outcome)]
    /\ UNCHANGED <<session_stats, tasks>>

\* a call of chat of the Redis demo; without an app the graph is not called
RedisChat ==
    /\ ncalls < MaxCalls
    /\ ncalls' = ncalls + 1
    /\ \/ wrap_ret' = [fn |-> "chat", session_id |-> NoId, app_none |-> TRUE,
                          outcome |-> NoOutcome,
                          ret |-> redis_chat(TRUE, NoOutcome)]
       \/ \E outcome \in GraphOutcomes :
             wrap_ret' = [fn |-> "chat", session_id |-> NoId, app_none |-> FALSE,
                          outcome |-> outcome,
                          ret |-> redis_chat(FALSE, outcome)]
    /\ UNCHANGED <<session_stats, tasks>>

-----------------------------------------------------------------------------
(* The WebSocket endpoint, one await at a time:                             *)
(* fastapi_langgraph_memory.py, websocket_chat                              *)

\* The one connection the model opens.  pc is the position of the handler: "none"
\* before a connection, "receive" at `await websocket.receive_text()`, "handle" from
\* the returned text to the send_json that answers it, "ended" after the handler
\* returned.  client is the peer: "open" or "closed" (it has disconnected).  received
\* and sent count the text frames read and the JSON frames sent on this connection.
\* Only text frames and the disconnect are delivered: they are what receive_text
\* returns or raises as WebSocketDisconnect.
NoWs ==
    [pc |-> "none", session_id |-> NoId, data |-> <<>>, client |-> "none",
     received |-> 0, sent |-> 0]

WsIdle == ws = NoWs

\* await websocket.accept() on /ws/{session_id}
WsAccept ==
    /\ ws.pc \in {"none", "ended"}
    /\ \E session_id \in ThreadIds :
          ws' = [NoWs EXCEPT !.pc = "receive", !.session_id = session_id,
                             !.client = "open"]
    /\ UNCHANGED apiVars

\* data = await websocket.receive_text() returns a text frame
WsReceiveText ==
    /\ ws.pc = "receive"
    /\ ws.client = "open"
    /\ nreq < MaxRequests
    /\ nreq' = nreq + 1
    /\ \E data \in EndpointTexts :
          ws' = [ws EXCEPT !.pc = "handle", !.data = data, !.received = @ + 1]
    /\ UNCHANGED <<chat_app, store, resp, last_count, chat_log>>

\* the frame read is processed: the graph call raises, with the input turn saved or
\* not, or returns (an uninitialized chat application takes the same exit each time)
WsProcess ==
    \/ \E reply \in LlmReplies :
          websocket_chat(ws.session_id, ws.data, reply, TRUE, FALSE)
    \/ \E reply \in LlmReplies :
          websocket_chat(ws.session_id, ws.data, reply, TRUE, TRUE)
    \/ \E reply \in LlmReplies :
          websocket_chat(ws.session_id, ws.data, reply, FALSE, FALSE)

\* the loop body without the send_json of the uninitialized branch
WsAnswer_silent_when_uninitialized ==
    /\ ws.pc = "handle"
    /\ ws.client = "open"
    /\ WsProcess
    /\ ws' = [ws EXCEPT !.pc = "receive", !.sent = IF chat_app THEN @ + 1 ELSE @]
    /\ UNCHANGED nreq

\* the rest of the loop body with the peer connected: the frame is processed and one
\* of the three send_json calls delivers its frame, then the loop reads again
WsAnswer ==
    /\ ws.pc = "handle"
    /\ ws.client = "open"
    /\ WsProcess
    /\ ws' = [ws EXCEPT !.pc = "receive", !.sent = @ + 1]
    /\ UNCHANGED nreq

\* the rest of the loop body after the peer has gone: the frame is processed, send_json
\* raises (in the inner try, the send_json of the except clause raises as well), and
\* the exception leaves the loop.  resp is the frame that was handed to send_json.
WsSendFails ==
    /\ ws.pc = "handle"
    /\ ws.client = "closed"
    /\ WsProcess
    /\ ws' = [ws EXCEPT !.pc = "ended"]
    /\ UNCHANGED nreq

\* the client closes the connection
WsClientDisconnect ==
    /\ ws.pc \in {"receive", "handle"}
    /\ ws.client = "open"
    /\ ws' = [ws EXCEPT !.client = "closed"]
    /\ UNCHANGED apiVars

\* receive_text raises WebSocketDisconnect: except WebSocketDisconnect ends the handler
WsDisconnected ==
    /\ ws.pc = "receive"
    /\ ws.client = "closed"
    /\ ws' = [ws EXCEPT !.pc = "ended"]
    /\ UNCHANGED apiVars

-----------------------------------------------------------------------------
(* POST /chat/batch, one await at a time:                                   *)
(* fastapi_langgraph_memory.py, batch_chat                                  *)

\* request.session_id or str(uuid.uuid4()): uuid4 does not give a value it gave to
\* an earlier batch request
BatchSessionIdOf(req_sid, issued) ==
    IF Truthy(req_sid) THEN {req_sid[1]} ELSE UUIDs \ issued

\* POST /chat on the session the batch requests name
BatchSideChat ==
    /\ nreq < MaxBatchRequests
    /\ ChatAnyExitOn({Some("alice")})

\* the message lists of the batch requests: up to MaxBatch messages, neighbours
\* different, so that a message found under the key of another one shows
BatchMessages ==
    {messages \in UNION {[1..n -> EndpointTexts] : n \in 0..MaxBatch} :
        \A i \in 1..(Len(messages) - 1) : messages[i] # messages[i + 1]}

\* The one batch request the model has in flight.  pc is "none" without one and
\* "loop" while the handler is suspended in `await chat(chat_request)` for messages[i]
\* (i counts from 0 as enumerate does); responses are the ChatResponse objects
\* collected so far.  issued is history: the session ids uuid4 has made for batch
\* requests.
NoBatch ==
    [pc |-> "none", req_session_id |-> None, session_id |-> NoId, messages |-> <<>>,
     i |-> 0, responses |-> <<>>, issued |-> {}]

\* no batch request in flight, after the given session ids were made
BatchDone(issued) == [NoBatch EXCEPT !.issued = issued]

BatchIdle == batch = NoBatch

\* the fields of the BatchChatResponse model
BatchChatResponseFields == {"responses", "total_time"}

\* BatchChatResponse(responses=responses, total_time=total_time)
BatchChatResponse(req_sid, messages, session_id, responses) ==
    [NoResponse EXCEPT !.op = "batch", !.status = 200, !.req_session_id = req_sid,
                       !.req_messages = messages, !.session_id = session_id,
                       !.responses = responses, !.fields = BatchChatResponseFields,
                       !.invocations = Len(responses)]

\* raise HTTPException(status_code=500, ...) of batch_chat after `made` graph calls
BatchHTTPException(detail, req_sid, messages, made) ==
    [HTTPException("batch", 500, detail, req_sid, <<>>)
        EXCEPT !.req_messages = messages, !.invocations = made]

\* POST /chat/batch up to its first await: the request is refused, answered at once
\* (no messages) or the loop is entered
BatchChatBegin ==
    /\ batch.pc = "none"
    /\ nreq < MaxBatchRequests
    /\ nreq' = nreq + 1
    /\ \E req_sid \in EndpointSessionIds, messages \in BatchMessages :
          IF ~chat_app
          THEN /\ resp' = BatchHTTPException(DetailUninitialized, req_sid, messages, 0)
               /\ UNCHANGED batch
          ELSE \E session_id \in BatchSessionIdOf(req_sid, batch.issued) :
              \E issued \in {IF Truthy(req_sid) THEN batch.issued
                                                ELSE batch.issued \cup {session_id}} :
                  IF messages = <<>>
                  THEN /\ resp' = BatchChatResponse(req_sid, messages, session_id, <<>>)
                       /\ batch' = BatchDone(issued)
                  ELSE /\ batch' = [BatchDone(issued) EXCEPT
                                        !.pc = "loop", !.req_session_id = req_sid,
                                        !.session_id = session_id,
                                        !.messages = messages]
                       /\ UNCHANGED resp
    /\ UNCHANGED <<chat_app, store, last_count, chat_log>>

\* mutant: the failing request answers with the replies collected so far
BatchChatRaises_returns_partial(sub_session_id, message) ==
    /\ \/ \E input_saved \in BOOLEAN :
             /\ store' = IF input_saved
                         THEN [store EXCEPT ![sub_session_id] =
                                   ApplyInput(store[sub_session_id], message)]
                         ELSE store
             /\ chat_log' = IF input_saved
                            THEN [chat_log EXCEPT ![sub_session_id].other = TRUE]
                            ELSE chat_log
       \/ \E reply \in LlmReplies :
             /\ store' = [store EXCEPT ![sub_session_id] =
                             ainvoke(store[sub_session_id], message, reply)]
             /\ chat_log' = [chat_log EXCEPT ![sub_session_id].other = TRUE]
    /\ resp' = [BatchHTTPException(DetailBatchFailed, batch.req_session_id,
                                   batch.messages, batch.i + 1)
                   EXCEPT !.responses = batch.responses]
    /\ batch' = BatchDone(batch.issued)
    /\ UNCHANGED last_count

\* chat(chat_request) called by the loop raises: the graph call raised, with the input
\* turn saved or not, or the state query after it raised.  The except clause of
\* batch_chat turns the HTTPException of chat into the 500 of the batch.
BatchChatRaises(sub_session_id, message) ==
    /\ \/ \E input_saved \in BOOLEAN :
             /\ store' = IF input_saved
                         THEN [store EXCEPT ![sub_session_id] =
                                   ApplyInput(store[sub_session_id], message)]
                         ELSE store
             /\ chat_log' = IF input_saved
                            THEN [chat_log EXCEPT ![sub_session_id].other = TRUE]
                            ELSE chat_log
       \/ \E reply \in LlmReplies :
             /\ store' = [store EXCEPT ![sub_session_id] =
                             ainvoke(store[sub_session_id], message, reply)]
             /\ chat_log' = [chat_log EXCEPT ![sub_session_id].other = TRUE]
    /\ resp' = BatchHTTPException(DetailBatchFailed, batch.req_session_id,
                                  batch.messages, batch.i + 1)
    /\ batch' = BatchDone(batch.issued)
    /\ UNCHANGED last_count

\* chat(chat_request) called by the loop returns its ChatResponse: it is appended, and
\* the loop goes on to the next message or the handler returns
BatchChatReturns(sub_session_id, message) ==
    \E reply \in LlmReplies :
    \E result \in {ainvoke(store[sub_session_id], message, reply)} :
    \E response \in
         {[ChatResponse(Some(sub_session_id), message, sub_session_id, result,
                        Len(DictGet(result, "messages", <<>>)))
              EXCEPT !.llm_input = LlmInput(ApplyInput(store[sub_session_id], message),
                                            result["user_info"])]} :
        /\ store' = [store EXCEPT ![sub_session_id] = result]
        /\ last_count' = [last_count EXCEPT ![sub_session_id] = response.message_count]
        /\ chat_log' = [chat_log EXCEPT ![sub_session_id].turns =
                                            Append(@, <<message, reply>>)]
        /\ IF batch.i + 1 = Len(batch.messages)
           THEN /\ resp' = BatchChatResponse(batch.req_session_id, batch.messages,
                                             batch.session_id,
                                             Append(batch.responses, response))
                /\ batch' = BatchDone(batch.issued)
           ELSE /\ batch' = [batch EXCEPT !.i = @ + 1,
                                          !.responses = Append(@, response)]
                /\ UNCHANGED resp

\* mutant: every message of a batch is processed under the key of the first one
BatchChatStep_first_key ==
    /\ batch.pc = "loop"
    /\ \/ BatchChatRaises(SubSessionId(batch.session_id, 0),
                          batch.messages[batch.i + 1])
       \/ BatchChatReturns(SubSessionId(batch.session_id, 0),
                           batch.messages[batch.i + 1])
    /\ UNCHANGED <<chat_app, nreq>>

\* the loop of batch_chat from the end of one `await chat(chat_request)` to the next
\* await or to the end of the handler
BatchChatStep ==
    /\ batch.pc = "loop"
    /\ \/ BatchChatRaises(SubSessionId(batch.session_id, batch.i),
                          batch.messages[batch.i + 1])
       \/ BatchChatReturns(SubSessionId(batch.session_id, batch.i),
                           batch.messages[batch.i + 1])
    /\ UNCHANGED <<chat_app, nreq>>

-----------------------------------------------------------------------------
(* AsyncLangGraphChatApp.batch_chat: async_langgraph_memory.py *)

\* The one batch_chat call the model makes.  pc is "none" before the call, "gather"
\* while the caller is suspended in `await asyncio.gather(*tasks)`, "done" after the
\* return.  The coroutine of messages[t] is tasks[t].
NoGather == [pc |-> "none", session_id |-> NoId, messages |-> <<>>]

GatherIdle == gather = NoGather

\* batch_chat up to its await: one chat coroutine per message, each under its
\* temp_session_id, handed to asyncio.gather, which runs each to its own await
AsyncBatchChat ==
    /\ gather.pc = "none"
    /\ ncalls = 0
    /\ ncalls' = ncalls + 1
    /\ \E messages \in BatchMessages, session_id \in SessionKeys :
          /\ gather' = [pc |-> "gather", session_id |-> session_id,
                        messages |-> messages]
          /\ tasks' = [t \in Tasks |->
                          IF t <= Len(messages)
                          THEN chat_suspend(tasks, t, messages[t],
                                            SubSessionId(session_id, t - 1))[t]
                          ELSE tasks[t]]
    /\ UNCHANGED <<session_stats, wrap_ret>>

\* asyncio.gather returns once every coroutine has returned: the list of their return
\* values in the order of the coroutines
AsyncBatchReturn ==
    /\ gather.pc = "gather"
    /\ \A t \in 1..Len(gather.messages) : tasks[t].pc = "done"
    /\ gather' = [gather EXCEPT !.pc = "done"]
    /\ wrap_ret' = [NoCall EXCEPT !.fn = "AsyncLangGraphChatApp.batch_chat",
                                  !.ret = Return([t \in 1..Len(gather.messages) |->
                                                     tasks[t].ret.value])]
    /\ UNCHANGED <<session_stats, tasks, ncalls>>

-----------------------------------------------------------------------------
(* The LCEL memory chains: demo/run_lcel_memory.py *)

\* the most invoke calls on one chain object
MaxInvokes == 4

\* window_size of the constructor: an int without a check; 4 is the value of
\* test_window_memory, 2 lets a short history overflow the window
WindowSizes == {0, 2, 4}

\* what the user types
LcelTexts == {TextHello, TextZhangSan}

\* seq[start:] of Python for a list: a negative start counts from the end, and -0 is 0
PySliceFrom(seq, start) ==
    LET from == IF start < 0
                THEN (IF Len(seq) + start < 0 THEN 0 ELSE Len(seq) + start)
                ELSE (IF start > Len(seq) THEN Len(seq) ELSE start)
    IN  SubSeq(seq, from + 1, Len(seq))

\* get_recent_history: self.history[-self.window_size:] if len(self.history) >
\* self.window_size else self.history
get_recent_history(history, window_size) ==
    IF Len(history) > window_size THEN PySliceFrom(history, 0 - window_size) ELSE history

\* The one chain object.  kind is "none" before construction, then "manual" or
\* "window".  seen is history: the history messages the prompt of the last invoke
\* handed to the model, input its user_input; info is the last get_window_info
\* result; last names the last call and how it ended; n counts the invoke calls.
NoChain ==
    [kind |-> "none", window_size |-> 0, history |-> <<>>, seen |-> <<>>,
     input |-> <<>>, info |-> EmptyDict, last |-> "none", n |-> 0]

LcelIdle == chain = NoChain

\* ManualMemoryChain(llm)
NewManualMemoryChain ==
    /\ chain.kind = "none"
    /\ chain' = [NoChain EXCEPT !.kind = "manual", !.last = "init"]

\* WindowMemoryChain(llm, window_size)
NewWindowMemoryChain ==
    /\ chain.kind = "none"
    /\ \E window_size \in WindowSizes :
          chain' = [NoChain EXCEPT !.kind = "window", !.window_size = window_size,
                                   !.last = "init"]

\* mutant: the user input is appended before the model is called
invoke_appends_first(c, recent, text, raises, response) ==
    IF raises
    THEN [c EXCEPT !.seen = recent, !.input = text, !.last = "invoke raised",
                   !.n = @ + 1,
                   !.history = Append(@, HumanMessage(text))]
    ELSE [c EXCEPT !.seen = recent, !.input = text, !.last = "invoke returned",
                   !.n = @ + 1,
                   !.history = Append(Append(@, HumanMessage(text)),
                                      AIMessage(response))]

\* invoke of either chain, the prompt being given `recent` as its history:
\* self.chain.invoke raises, or returns the response and the two appends follow
invoke(c, recent, text, raises, response) ==
    IF raises
    THEN [c EXCEPT !.seen = recent, !.input = text, !.last = "invoke raised",
                   !.n = @ + 1]
    ELSE [c EXCEPT !.seen = recent, !.input = text, !.last = "invoke returned",
                   !.n = @ + 1,
                   !.history = Append(Append(@, HumanMessage(text)),
                                      AIMessage(response))]

\* ManualMemoryChain.invoke
ManualInvoke ==
    /\ chain.kind = "manual"
    /\ chain.n < MaxInvokes
    /\ \E text \in LcelTexts, raises \in BOOLEAN, response \in LlmReplies :
          chain' = invoke(chain, chain.history, text, raises, response)

\* WindowMemoryChain.invoke
WindowInvoke ==
    /\ chain.kind = "window"
    /\ chain.n < MaxInvokes
    /\ \E text \in LcelTexts, raises \in BOOLEAN, response \in LlmReplies :
          chain' = invoke(chain, get_recent_history(chain.history, chain.window_size),
                          text, raises, response)

\* min(a, b)
Min(a, b) == IF a <= b THEN a ELSE b

\* WindowMemoryChain.get_window_info
GetWindowInfo ==
    /\ chain.kind = "window"
    /\ chain.last # "get_window_info"
    /\ chain' = [chain EXCEPT
                    !.last = "get_window_info",
                    !.info = [total_messages |-> Len(chain.history),
                              window_size |-> chain.window_size,
                              messages_in_window |->
                                  Min(Len(chain.history), chain.window_size)]]

-----------------------------------------------------------------------------
(* The advanced chat graph: examples/langgraph_memory_example.py *)

\* the most chat calls on the session
MaxAdvTurns == 6

\* what the user says
AdvTexts == {TextHello, TextZhangSan}

\* what summarize_conversation gets from the model: no text, or some text (its own
\* failure text is some text as well)
SummaryTexts == {<<>>, <<"s", "u", "m">>}

\* "\n\n" U+6700 U+8FD1 U+5BF9 U+8BDD ": " between the summary and the recent one
RecentLabel == <<"\n", "\n", "zui", "jin", "dui", "hua", ":", " ">>

\* seq[:-k] of Python for k > 0
PyDropLast(seq, k) == SubSeq(seq, 1, IF Len(seq) > k THEN Len(seq) - k ELSE 0)

\* summarize_conversation: the summary and the messages written into its prompt
summarize_conversation(messages, text) ==
    IF Len(messages) < 4
    THEN [summary |-> <<>>, prompt |-> <<>>]
    ELSE [summary |-> text, prompt |-> PyDropLast(messages, 2)]

\* the system message of the advanced node: fixed text around these two values
AdvSystemMessage(user_info, summary) ==
    SystemMessage([user_info |-> user_info, summary |-> summary])

\* mutant: the node returns the trimmed list as the new message list (the reducer is
\* modelled by the caller, which stores what the node hands back)
advanced_chatbot_node_stores_trimmed(state, text, reply) ==
    LET messages == state["messages"]
        user_info == DictUpdate(state["user_info"], extract_user_info(messages))
    IN  IF Len(messages) > 10
        THEN LET made == IF state["summary"] = <<>>
                         THEN summarize_conversation(PyDropLast(messages, 6), text)
                         ELSE summarize_conversation(
                                  PyDropLast(PySliceFrom(messages, 0 - 8), 2), text)
                 summary == IF state["summary"] = <<>>
                            THEN made.summary
                            ELSE state["summary"] \o RecentLabel \o made.summary
                 trimmed_messages == PySliceFrom(messages, 0 - 6)
             IN  [messages |-> Append(trimmed_messages, AIMessage(reply)),
                  summary |-> summary, user_info |-> user_info,
                  final_messages |->
                      <<AdvSystemMessage(user_info, summary)>> \o trimmed_messages,
                  summarized |-> made.prompt]
        ELSE [messages |-> Append(messages, AIMessage(reply)),
              summary |-> state["summary"], user_info |-> user_info,
              final_messages |->
                  <<AdvSystemMessage(user_info, <<>>)>> \o messages,
              summarized |-> <<>>]

\* advanced_chatbot_node on the state with the new user message applied: the state
\* after the reducer appended the returned AIMessage, the list handed to
\* llm.invoke, and the messages written into the summary prompt
advanced_chatbot_node(state, text, reply) ==
    LET messages == state["messages"]
        user_info == DictUpdate(state["user_info"], extract_user_info(messages))
    IN  IF Len(messages) > 10
        THEN LET made == IF state["summary"] = <<>>
                         THEN summarize_conversation(PyDropLast(messages, 6), text)
                         ELSE summarize_conversation(
                                  PyDropLast(PySliceFrom(messages, 0 - 8), 2), text)
                 summary == IF state["summary"] = <<>>
                            THEN made.summary
                            ELSE state["summary"] \o RecentLabel \o made.summary
                 trimmed_messages == PySliceFrom(messages, 0 - 6)
             IN  [messages |-> Append(messages, AIMessage(reply)),
                  summary |-> summary, user_info |-> user_info,
                  final_messages |->
                      <<AdvSystemMessage(user_info, summary)>> \o trimmed_messages,
                  summarized |-> made.prompt]
        ELSE [messages |-> Append(messages, AIMessage(reply)),
              summary |-> state["summary"], user_info |-> user_info,
              final_messages |->
                  <<AdvSystemMessage(user_info, <<>>)>> \o messages,
              summarized |-> <<>>]

\* The one session of the advanced graph: the three channels of its checkpoint, and
\* as history the list the last llm.invoke of the node was given (seen), the
\* messages of the last summary prompt (summarized), how the last chat call ended,
\* what it returned and the number of calls.
NoAdv ==
    [messages |-> <<>>, summary |-> <<>>, user_info |-> EmptyDict,
     seen |-> <<>>, summarized |-> <<>>, last |-> "none", ret |-> <<>>, n |-> 0]

AdvIdle == adv = NoAdv

\* LangGraphChatApp.chat on the advanced graph: the user message is appended, the
\* node runs; its llm.invoke returns, or raises with the input saved or not, and chat
\* returns the reply or its error text
AdvancedChat ==
    /\ adv.n < MaxAdvTurns
    /\ \E message \in AdvTexts, text \in SummaryTexts, reply \in LlmReplies,
          e \in GraphErrors :
       \E out \in {advanced_chatbot_node(
                      [messages |-> Append(adv.messages, HumanMessage(message)),
                       summary |-> adv.summary, user_info |-> adv.user_info],
                      text, reply)} :
          \/ adv' = [adv EXCEPT !.messages = out.messages, !.summary = out.summary,
                                !.user_info = out.user_info,
                                !.seen = out.final_messages,
                                !.summarized = out.summarized,
                                !.last = "returned", !.ret = reply, !.n = @ + 1]
          \/ \E input_saved \in BOOLEAN :
                adv' = [adv EXCEPT !.messages =
                                       IF input_saved
                                       THEN Append(@, HumanMessage(message))
                                       ELSE @,
                                   !.seen = out.final_messages,
                                   !.summarized = out.summarized,
                                   !.last = "raised",
                                   !.ret = SorryPrefix \o e, !.n = @ + 1]

MoreIdle == WsIdle /\ BatchIdle /\ GatherIdle /\ LcelIdle /\ AdvIdle

-----------------------------------------------------------------------------
(* Specifications *)

\* the service
Init == ApiIdle /\ ExIdle /\ UiIdle /\ NavIdle /\ WrapIdle /\ MoreIdle

Next ==
    \/ Lifespan /\ UNCHANGED <<exVars, uiVars, navVars, wrapVars, moreVars>>
    \/ Chat /\ UNCHANGED <<exVars, uiVars, navVars, wrapVars, moreVars>>
    \/ ClearSession /\ UNCHANGED <<exVars, uiVars, navVars, wrapVars, moreVars>>
    \/ DeleteSession /\ UNCHANGED <<exVars, uiVars, navVars, wrapVars, moreVars>>

Spec == Init /\ [][Next]_vars

\* every endpoint of the service and every exit of its handlers, on few inputs
NextEndpoints ==
    \/ Lifespan /\ UNCHANGED <<exVars, uiVars, navVars, wrapVars, moreVars>>
    \/ ChatAnyExit /\ UNCHANGED <<exVars, uiVars, navVars, wrapVars, moreVars>>
    \/ GetConversationHistory /\ UNCHANGED <<exVars, uiVars, navVars, wrapVars, moreVars>>
    \/ GetSessionInfo /\ UNCHANGED <<exVars, uiVars, navVars, wrapVars, moreVars>>
    \/ DeleteSession /\ UNCHANGED <<exVars, uiVars, navVars, wrapVars, moreVars>>
    \/ WebsocketChat /\ UNCHANGED <<exVars, uiVars, navVars, wrapVars, moreVars>>

SpecEndpoints == Init /\ [][NextEndpoints]_vars

\* the chat wrappers, the asynchronous one called concurrently
NextWrappers ==
    \/ AsyncChatSuspend /\ UNCHANGED <<apiVars, exVars, uiVars, navVars, moreVars>>
    \/ AsyncChatResume /\ UNCHANGED <<apiVars, exVars, uiVars, navVars, moreVars>>
    \/ SyncChat /\ UNCHANGED <<apiVars, exVars, uiVars, navVars, moreVars>>
    \/ RedisChat /\ UNCHANGED <<apiVars, exVars, uiVars, navVars, moreVars>>
    \/ GetSessionStats /\ UNCHANGED <<apiVars, exVars, uiVars, navVars, moreVars>>

SpecWrappers == Init /\ [][NextWrappers]_vars

\* the extractor applied to every bounded message list
InitExtract == ExInit /\ ApiIdle /\ UiIdle /\ NavIdle /\ WrapIdle /\ MoreIdle

NextExtract ==
    \/ CallExtractApi /\ UNCHANGED <<apiVars, uiVars, navVars, wrapVars, moreVars>>
    \/ CallExtractSync /\ UNCHANGED <<apiVars, uiVars, navVars, wrapVars, moreVars>>
    \/ CallExtractAsync /\ UNCHANGED <<apiVars, uiVars, navVars, wrapVars, moreVars>>

SpecExtract == InitExtract /\ [][NextExtract]_vars

\* the chat page
InitUI == UiInit /\ ApiIdle /\ ExIdle /\ NavIdle /\ WrapIdle /\ MoreIdle

NextUI ==
    \/ TypeText /\ UNCHANGED <<apiVars, exVars, navVars, wrapVars, moreVars>>
    \/ SelectAgent /\ UNCHANGED <<apiVars, exVars, navVars, wrapVars, moreVars>>
    \/ MoveSlider /\ UNCHANGED <<apiVars, exVars, navVars, wrapVars, moreVars>>
    \/ SubmitClick /\ UNCHANGED <<apiVars, exVars, navVars, wrapVars, moreVars>>
    \/ ClearClick /\ UNCHANGED <<apiVars, exVars, navVars, wrapVars, moreVars>>

SpecUI == InitUI /\ [][NextUI]_vars

\* the application: the tabs and navigation buttons around the chat page
NextApp ==
    \/ TypeText /\ UNCHANGED <<apiVars, exVars, navVars, wrapVars, moreVars>>
    \/ SelectAgent /\ UNCHANGED <<apiVars, exVars, navVars, wrapVars, moreVars>>
    \/ MoveSlider /\ UNCHANGED <<apiVars, exVars, navVars, wrapVars, moreVars>>
    \/ SubmitClick /\ UNCHANGED <<apiVars, exVars, navVars, wrapVars, moreVars>>
    \/ ClearClick /\ UNCHANGED <<apiVars, exVars, navVars, wrapVars, moreVars>>
    \/ HomeClick /\ UNCHANGED <<apiVars, exVars, wrapVars, moreVars>>
    \/ ChatClick /\ UNCHANGED <<apiVars, exVars, wrapVars, moreVars>>
    \/ AboutClick /\ UNCHANGED <<apiVars, exVars, wrapVars, moreVars>>
    \/ TabSelect /\ UNCHANGED <<apiVars, exVars, wrapVars, moreVars>>

SpecApp == InitUI /\ [][NextApp]_vars

\* the WebSocket endpoint.  The handler is a coroutine of the event loop: once a frame
\* is read, the rest of the loop body runs (the graph call returns or raises).
WsHandle == (WsAnswer \/ WsSendFails) /\ UNCHANGED <<exVars, uiVars, navVars, wrapVars>>
                                      /\ UNCHANGED <<batchVars, lcelVars, advVars>>

NextWs ==
    \/ Lifespan /\ UNCHANGED <<exVars, uiVars, navVars, wrapVars, moreVars>>
    \/ WsAccept /\ UNCHANGED <<exVars, uiVars, navVars, wrapVars, batchVars, lcelVars, advVars>>
    \/ WsReceiveText /\ UNCHANGED <<exVars, uiVars, navVars, wrapVars, batchVars, lcelVars, advVars>>
    \/ WsAnswer /\ UNCHANGED <<exVars, uiVars, navVars, wrapVars, batchVars, lcelVars, advVars>>
    \/ WsSendFails /\ UNCHANGED <<exVars, uiVars, navVars, wrapVars, batchVars, lcelVars, advVars>>
    \/ WsClientDisconnect /\ UNCHANGED <<exVars, uiVars, navVars, wrapVars, batchVars, lcelVars, advVars>>
    \/ WsDisconnected /\ UNCHANGED <<exVars, uiVars, navVars, wrapVars, batchVars, lcelVars, advVars>>

SpecWs == Init /\ [][NextWs]_vars /\ WF_vars(WsHandle)

\* the LCEL memory chains
NextLcel ==
    \/ NewManualMemoryChain
          /\ UNCHANGED <<apiVars, exVars, uiVars, navVars, wrapVars, wsVars, batchVars, advVars>>
    \/ NewWindowMemoryChain
          /\ UNCHANGED <<apiVars, exVars, uiVars, navVars, wrapVars, wsVars, batchVars, advVars>>
    \/ ManualInvoke
          /\ UNCHANGED <<apiVars, exVars, uiVars, navVars, wrapVars, wsVars, batchVars, advVars>>
    \/ WindowInvoke
          /\ UNCHANGED <<apiVars, exVars, uiVars, navVars, wrapVars, wsVars, batchVars, advVars>>
    \/ GetWindowInfo
          /\ UNCHANGED <<apiVars, exVars, uiVars, navVars, wrapVars, wsVars, batchVars, advVars>>

SpecLcel == Init /\ [][NextLcel]_vars

\* the advanced chat graph
NextAdvanced ==
    \/ AdvancedChat
          /\ UNCHANGED <<apiVars, exVars, uiVars, navVars, wrapVars, wsVars, batchVars, lcelVars>>

SpecAdvanced == Init /\ [][NextAdvanced]_vars

\* The two batch operations.  The service and the asynchronous example are two
\* programs: a behaviour runs the batch endpoint next to POST /chat, or it runs
\* AsyncLangGraphChatApp.batch_chat.
ServiceRuns == ncalls = 0

ExampleRuns == nreq = 0 /\ ~chat_app

NextBatch ==
    \/ ServiceRuns /\ Lifespan
          /\ UNCHANGED <<exVars, uiVars, navVars, wrapVars, moreVars>>
    \/ ServiceRuns /\ BatchSideChat
          /\ UNCHANGED <<exVars, uiVars, navVars, wrapVars, moreVars>>
    \/ ServiceRuns /\ BatchChatBegin
          /\ UNCHANGED <<exVars, uiVars, navVars, wrapVars, wsVars, gather, lcelVars, advVars>>
    \/ ServiceRuns /\ BatchChatStep
          /\ UNCHANGED <<exVars, uiVars, navVars, wrapVars, wsVars, gather, lcelVars, advVars>>
    \/ ExampleRuns /\ AsyncBatchChat
          /\ UNCHANGED <<apiVars, exVars, uiVars, navVars, wsVars, batch, lcelVars, advVars>>
    \/ ExampleRuns /\ AsyncChatResume
          /\ UNCHANGED <<apiVars, exVars, uiVars, navVars, moreVars>>
    \/ ExampleRuns /\ AsyncBatchReturn
          /\ UNCHANGED <<apiVars, exVars, uiVars, navVars, wsVars, batch, lcelVars, advVars>>

SpecBatch == Init /\ [][NextBatch]_vars

\* the service from its startup on: the four HTTP endpoints that test chat_app, the
\* walk being as long as that of the batch operations
ServiceWalk == nreq < MaxBatchRequests

NextService ==
    \/ Lifespan /\ UNCHANGED <<exVars, uiVars, navVars, wrapVars, moreVars>>
    \/ BatchSideChat /\ UNCHANGED <<exVars, uiVars, navVars, wrapVars, moreVars>>
    \/ BatchChatBegin
          /\ UNCHANGED <<exVars, uiVars, navVars, wrapVars, wsVars, gather, lcelVars, advVars>>
    \/ BatchChatStep
          /\ UNCHANGED <<exVars, uiVars, navVars, wrapVars, wsVars, gather, lcelVars, advVars>>
    \/ ServiceWalk /\ GetConversationHistory
          /\ UNCHANGED <<exVars, uiVars, navVars, wrapVars, moreVars>>
    \/ ServiceWalk /\ GetSessionInfo
          /\ UNCHANGED <<exVars, uiVars, navVars, wrapVars, moreVars>>

SpecService == Init /\ [][NextService]_vars

-----------------------------------------------------------------------------
(* Properties *)

\* the stored message list of a thread
MessagesOf(t) == DictGet(store[t], "messages", <<>>)

\* the step handles a request of the given kind
Handled(op) == nreq' = nreq + 1 /\ resp'.op = op

\* the last response is a successful POST /chat
ChatSucceeded == resp.op = "chat" /\ resp.status = 200

C2_MessageCountNonDecreasing ==
    [][(Handled("chat") /\ resp'.status = 200) =>
          resp'.message_count >= last_count[resp'.session_id]]_vars

\* a third-or-later message of a session answered after another session was used
C2_Witness ==
    /\ ChatSucceeded
    /\ resp.req_message # <<>>
    /\ resp.message_count >= 4
    /\ \E t \in ThreadIds \ {resp.session_id} : Len(MessagesOf(t)) >= 1

\* C3 as stated: a POST /chat whose message is the empty string is answered without
\* an error and leaves the stored transcript, and so the message count, unchanged.
C3_EmptyMessageIgnored ==
    [][(Handled("chat") /\ resp'.req_message = <<>> /\ resp'.status = 200) =>
          store' = store]_vars

\* C4: a send with an empty or whitespace-only input returns the transcript and the
\* conversation state as they were passed in.
C4_BlankSendKeepsState ==
    [][(ui_steps' = ui_steps + 1 /\ ui_event'.name = "submit" /\ Strip(user_input) = <<>>) =>
          /\ chatbot' = chatbot
          /\ conversation_state' = conversation_state]_vars

\* a whitespace-only send on a transcript that already has an entry
C4_Witness ==
    /\ ui_event.name = "submit"
    /\ ui_event.arg # <<>>
    /\ Strip(ui_event.arg) = <<>>
    /\ Len(chatbot) = 1
    /\ "last_input" \in DOMAIN conversation_state

\* the token the claim speaks of: the characters after the first marker, leading
\* whitespace skipped, up to the next whitespace
RECURSIVE AfterMarker(_)
AfterMarker(s) ==
    IF Len(s) < 2 THEN <<>>
    ELSE IF SubSeq(s, 1, 2) = WoJiao \/ SubSeq(s, 1, 2) = WoShi
         THEN SubSeq(s, 3, Len(s))
         ELSE AfterMarker(Tail(s))

RECURSIVE UpToWhitespace(_)
UpToWhitespace(s) ==
    IF s = <<>> \/ Head(s) \in Whitespace THEN <<>>
    ELSE <<Head(s)>> \o UpToWhitespace(Tail(s))

Separators == {"fcomma", ","}

RECURSIVE StripTrailingSeparators(_)
StripTrailingSeparators(s) ==
    IF s # <<>> /\ s[Len(s)] \in Separators
    THEN StripTrailingSeparators(SubSeq(s, 1, Len(s) - 1))
    ELSE s

TokenAfterMarker(s) == StripTrailingSeparators(UpToWhitespace(LStrip(AfterMarker(s))))

\* C5 as stated: for a user message with a self-introduction marker followed by a
\* token, the name key is that token with trailing separators stripped.
C5_NameIsTokenAfterMarker ==
    (/\ ex_pc = "done"
     /\ Len(ex_messages) = 1
     /\ ex_messages[1].type = "human"
     /\ TokenAfterMarker(ex_messages[1].content) # <<>>)
    => /\ "name" \in DOMAIN ex_result
       /\ ex_result["name"] = TokenAfterMarker(ex_messages[1].content)

\* the jobs list of the copy under test
JobsOf(fn) == IF fn = "api" THEN JobsApi ELSE IF fn = "sync" THEN JobsSync ELSE JobsAsync

\* the human messages of the input that contain some term of the list
HumansWith(terms) ==
    {i \in 1..Len(ex_messages) :
        /\ ex_messages[i].type = "human"
        /\ \E k \in 1..Len(terms) : Contains(terms[k], ex_messages[i].content)}

Last(S) == CHOOSE i \in S : \A j \in S : j <= i

\* C6: the job key is the vocabulary term found in the (last) user message that
\* has one; of several terms in that message it is the first of the vocabulary list.
C6_JobIsFirstOfVocabulary ==
    ex_pc = "done" =>
        LET terms == JobsOf(ex_fn)
            with == HumansWith(terms)
        IN  IF with = {} THEN "job" \notin DOMAIN ex_result
            ELSE /\ "job" \in DOMAIN ex_result
                 /\ \E k \in 1..Len(terms) :
                       /\ ex_result["job"] = terms[k]
                       /\ Contains(terms[k], ex_messages[Last(with)].content)
                       /\ \A j \in 1..(k - 1) :
                             ~Contains(terms[j], ex_messages[Last(with)].content)

\* a message naming two jobs, the later one of the vocabulary first in the text
C6_Witness ==
    /\ ex_pc = "done"
    /\ ex_messages = <<HumanMessage(TextTwoJobs)>>
    /\ ex_result["job"] = ChengXuYuan

\* every marker some copy of the extractor recognizes
AllMarkers == NameMarkers \o JobsApi \o Cities \o <<XiHuan>>

\* C7: when no user message contains a recognized marker the mapping is empty,
\* whatever the assistant and system messages say.
C7_NoMarkerEmptyMapping ==
    (ex_pc = "done" /\ HumansWith(AllMarkers) = {}) => ex_result = EmptyDict

\* an assistant message with markers next to a user message without any
C7_Witness ==
    /\ ex_pc = "done"
    /\ ex_result = EmptyDict
    /\ \E i, j \in 1..Len(ex_messages) :
          /\ ex_messages[i].type = "ai"
          /\ Contains(WoShi, ex_messages[i].content)
          /\ ex_messages[j].type = "human"

\* what one user message alone yields under the API copy
AloneApi(msg) == ExtractMessage(EmptyDict, msg, JobsApi, Cities, TRUE)

InfoKeys == {"name", "job", "interests", "location"}

\* for each key, the value of the last message that yields the key
LastWins(messages) ==
    LET yields(k) == {i \in 1..Len(messages) : k \in DOMAIN AloneApi(messages[i])}
    IN  [k \in {x \in InfoKeys : yields(x) # {}} |-> AloneApi(messages[Last(yields(k))])[k]]

\* C8: after every successful turn the user-info mapping, returned and stored, is
\* the one built from the whole message list of the session, each key holding the
\* value of the last user message that yields it.
C8_UserInfoRebuiltLastWins ==
    ChatSucceeded =>
        /\ resp.user_info = LastWins(MessagesOf(resp.session_id))
        /\ store[resp.session_id]["user_info"] = resp.user_info

\* two user messages of one session gave different names; the later one is kept
C8_Witness ==
    /\ ChatSucceeded
    /\ resp.message_count >= 4
    /\ LET m == MessagesOf(resp.session_id)
       IN  \E i, j \in 1..Len(m) :
              /\ i < j
              /\ "name" \in DOMAIN AloneApi(m[i])
              /\ "name" \in DOMAIN AloneApi(m[j])
              /\ AloneApi(m[i])["name"] # AloneApi(m[j])["name"]
              /\ resp.user_info["name"] = AloneApi(m[j])["name"]

\* C9 as stated: the interests key holds the text of the user message with the
\* interest marker, character for character as the user sent it.
C9_InterestsIsTextAsSent ==
    (ex_pc = "done" /\ HumansWith(<<XiHuan>>) # {}) =>
        /\ "interests" \in DOMAIN ex_result
        /\ ex_result["interests"] = ex_messages[Last(HumansWith(<<XiHuan>>))].content

\* C9 amended: the interests key holds the entire text of that message in lower
\* case.
C9_InterestsIsLoweredText ==
    IF ex_pc = "done" /\ HumansWith(<<XiHuan>>) # {}
    THEN /\ "interests" \in DOMAIN ex_result
         /\ ex_result["interests"] =
                Lower(ex_messages[Last(HumansWith(<<XiHuan>>))].content)
    ELSE ex_pc = "done" => "interests" \notin DOMAIN ex_result

\* an interest message with an upper-case letter
C9_Witness ==
    /\ ex_pc = "done"
    /\ "interests" \in DOMAIN ex_result
    /\ ex_result["interests"] # ex_messages[Last(HumansWith(<<XiHuan>>))].content

\* C10 as stated: whenever the request supplies a session_id, whatever string it is,
\* the response carries it unchanged.
C10_SuppliedIdReturned ==
    (ChatSucceeded /\ resp.req_session_id # None) => resp.session_id = resp.req_session_id[1]

\* C10 amended: a request with a non-empty session_id is run on that thread and
\* answered with that id; a request with no session_id or with the empty string is
\* run on, and answered with, a generated one.
C10_NonEmptyIdReturned ==
    [][(Handled("chat") /\ resp'.status = 200) =>
          /\ Truthy(resp'.req_session_id) => resp'.session_id = resp'.req_session_id[1]
          /\ ~Truthy(resp'.req_session_id) => resp'.session_id \in UUIDs
          /\ store'[resp'.session_id] # store[resp'.session_id]
          /\ \A t \in ThreadIds \ {resp'.session_id} : store'[t] = store[t]]_vars

\* a second turn on a session the client named
C10_Witness ==
    /\ ChatSucceeded
    /\ resp.req_session_id = Some("alice")
    /\ resp.session_id = "alice"
    /\ resp.message_count >= 4

\* how many of the messages are user turns
HumanCount(messages) ==
    Cardinality({i \in 1..Len(messages) : messages[i] = HumanMessage(messages[i].content)})

\* C11: a POST /chat request calls the agent graph at most once; when the call or
\* the state query after it raises, the request is answered with status 500 and no
\* response field, and it is not run again: at most one user turn is stored for it,
\* on one session.
C11_ChatSingleShot ==
    [][Handled("chat") =>
          /\ resp'.invocations <= 1
          /\ resp'.status \in {200, 500}
          /\ resp'.status = 500 =>
                /\ resp'.fields = {}
                /\ resp'.response = <<>>
                /\ resp'.session_id = NoId
                /\ resp'.user_info = EmptyDict
                /\ resp'.message_count = 0
          /\ \E t \in ThreadIds :
                /\ \A u \in ThreadIds \ {t} : store'[u] = store[u]
                /\ HumanCount(DictGet(store'[t], "messages", <<>>))
                      <= HumanCount(MessagesOf(t)) + 1
                /\ Len(DictGet(store'[t], "messages", <<>>)) <= Len(MessagesOf(t)) + 2]_vars

\* a request answered 500 after its single graph call, whose user turn was saved
\* without a reply
C11_Witness ==
    /\ resp.op = "chat"
    /\ resp.status = 500
    /\ resp.invocations = 1
    /\ \E t \in ThreadIds :
          /\ MessagesOf(t) # <<>>
          /\ MessagesOf(t)[Len(MessagesOf(t))] = HumanMessage(resp.req_message)

\* C12: DELETE /sessions/{id} is answered 200 with a message for every id, with or
\* without a stored conversation, and leaves the stored state of every session as
\* it was; a later history request on a session returns no fewer messages than the
\* last chat on it reported, and a later chat continues from them.
C12_DeleteChangesNothing ==
    [][/\ Handled("delete") =>
             /\ resp'.status = 200
             /\ resp'.fields = {"message"}
             /\ store' = store
       /\ (Handled("history") /\ resp'.status = 200) =>
             Len(resp'.messages) >= last_count[resp'.session_id]
       /\ (Handled("chat") /\ resp'.status = 200) =>
             resp'.message_count >= last_count[resp'.session_id] + 2]_vars

\* a delete of a session that holds a conversation, while another id has none
C12_Witness ==
    /\ resp.op = "delete"
    /\ Len(MessagesOf(resp.session_id)) >= 2
    /\ \E t \in ThreadIds : store[t] = NoValues

\* the coroutines that returned a reply for the session
Completed(s) ==
    {t \in Tasks : /\ tasks[t].pc = "done"
                   /\ tasks[t].session_id = s
                   /\ "error" \notin DOMAIN tasks[t].ret.value}

\* message_count of the session in the mapping, 0 without an entry
CountOf(stats_map, s) == IF s \in DOMAIN stats_map THEN stats_map[s].message_count ELSE 0

\* a graph call that returns
ReplyOutcome ==
    [raises |-> FALSE, e |-> <<>>, reply |-> CHOOSE r \in LlmReplies : TRUE,
     user_info |-> EmptyDict]

\* the interleavings of n calls: every coroutine occurs twice, first where it is
\* created and suspended, then where it is resumed
Schedules(n) ==
    {sched \in [1..(2 * n) -> 1..n] :
        \A t \in 1..n : Cardinality({i \in 1..(2 * n) : sched[i] = t}) = 2}

\* session_stats after the calls of an interleaving, all on the session "default"
\* and all returning a reply
RECURSIVE RunSchedule(_, _, _)
RunSchedule(sched, stats_map, ts) ==
    IF sched = <<>>
    THEN stats_map
    ELSE LET t == Head(sched)
         IN  IF ts[t].pc = "idle"
             THEN RunSchedule(Tail(sched), stats_map,
                              chat_suspend(ts, t, TextHello, "default"))
             ELSE LET out == chat_resume(stats_map, ts, t, ReplyOutcome, 1)
                  IN  RunSchedule(Tail(sched), out[1], out[2])

\* C13 as stated: for some number N of calls on one session there is an
\* interleaving of them, all completed with a reply, after which the message_count
\* of the session is smaller than N.
C13_SomeInterleavingLosesUpdate ==
    \E n \in 2..MaxCalls : \E sched \in Schedules(n) :
        CountOf(RunSchedule(sched, session_stats, [t \in Tasks |-> NoTask]), "default")
            < CountOf(session_stats, "default") + n

\* C13 amended: a coroutine of AsyncLangGraphChatApp.chat is suspended only in the
\* graph call; the read, increment and write of the session statistics run without
\* suspension, so in every interleaving the message_count of a session equals the
\* number of calls on it that have returned a reply: no update is lost.
C13_NoLostUpdate ==
    \A s \in SessionKeys : CountOf(session_stats, s) = Cardinality(Completed(s))

\* two calls have returned on a session while an older call on it is still suspended
C13_Witness ==
    \E s \in SessionKeys :
        /\ tasks[1].pc = "awaiting"
        /\ tasks[1].session_id = s
        /\ Completed(s) = {2, 3}
        /\ CountOf(session_stats, s) = 2

\* the conversation the turns of k successful calls make up: 2k entries, the
\* message of the i-th call at 2i-1 as user, its reply at 2i as assistant
ExpectedHistory(turns) ==
    [i \in 1..(2 * Len(turns)) |->
        IF i % 2 = 1
        THEN [role |-> "user", content |-> turns[(i + 1) \div 2][1]]
        ELSE [role |-> "assistant", content |-> turns[i \div 2][2]]]

\* nothing but k >= 0 successful POST /chat calls has written to the session
OnlyChats(log, t) == ~log[t].other

\* C14: on a session that k successful POST /chat calls, and nothing else, have
\* written to, the k-th call reports message_count = 2k, GET /conversations/{id}
\* returns the 2k messages in the order of the calls with roles user, assistant,
\* user, ..., and GET /sessions/{id}/info reports the count 2k.
C14_CountAndHistoryAfterKChats ==
    [][/\ (Handled("chat") /\ resp'.status = 200
            /\ OnlyChats(chat_log', resp'.session_id)) =>
             resp'.message_count = 2 * Len(chat_log'[resp'.session_id].turns)
       /\ (Handled("history") /\ resp'.status = 200
            /\ OnlyChats(chat_log, resp'.session_id)) =>
             resp'.messages = ExpectedHistory(chat_log[resp'.session_id].turns)
       /\ (Handled("info") /\ resp'.status = 200
            /\ OnlyChats(chat_log, resp'.session_id)) =>
             /\ chat_log[resp'.session_id].turns # <<>>
             /\ resp'.message_count = 2 * Len(chat_log[resp'.session_id].turns)]_vars

\* the history of a session after two successful calls
C14_Witness ==
    /\ resp.op = "history"
    /\ resp.status = 200
    /\ OnlyChats(chat_log, resp.session_id)
    /\ Len(chat_log[resp.session_id].turns) = 2
    /\ Len(resp.messages) = 4

\* C15: a POST /chat on session A changes the stored state of no other session,
\* whatever requests on other sessions came before it; the messages handed to the
\* model are A's stored messages and the new one, the user_info returned is drawn
\* from them and from A's stored user_info, and what is stored for A afterwards is
\* A's previous list with the new turn.
C15_SessionsIsolated ==
    [][Handled("chat") =>
          /\ \E t \in ThreadIds : \A u \in ThreadIds \ {t} : store'[u] = store[u]
          /\ resp'.status = 200 =>
                \E A \in {resp'.session_id} :
                \E seen \in {MessagesOf(A) \o <<HumanMessage(resp'.req_message)>>} :
                \E info \in {DictUpdate(DictGet(store[A], "user_info", EmptyDict),
                                        extract_user_info_async(seen))} :
                    /\ \A B \in ThreadIds \ {A} : store'[B] = store[B]
                    /\ resp'.llm_input = <<SystemMessage(info)>> \o seen
                    /\ resp'.user_info = info
                    /\ store'[A]["messages"] = seen \o <<AIMessage(resp'.response)>>
                    /\ store'[A]["user_info"] = info]_vars

\* a later turn on one session answered while another session holds a conversation
\* with other user_info
C15_Witness ==
    /\ ChatSucceeded
    /\ Len(resp.llm_input) >= 4
    /\ \E B \in ThreadIds \ {resp.session_id} :
          /\ Len(MessagesOf(B)) >= 2
          /\ DictGet(store[B], "user_info", EmptyDict) # EmptyDict
          /\ DictGet(store[B], "user_info", EmptyDict) # resp.user_info

\* C16 as stated: the reply to a text frame processed successfully on
\* /ws/{session_id} has the fields of the POST /chat response: response, session_id,
\* user_info, processing_time and message_count.
C16_WebsocketReplyHasChatShape ==
    (resp.op = "ws" /\ resp.status = 200) => resp.fields = ChatResponseFields

\* the step is a click on the named button of the chat page
Clicked(name) == ui_steps' = ui_steps + 1 /\ ui_event'.name = name

\* C17: a send with a non-blank input appends one entry [input, reply] to the
\* transcript and keeps the earlier entries as they were, empties the input field,
\* and sets last_input and last_agent of the conversation state to the input and
\* the selected agent type, other keys kept.
C17_SendAppendsOneEntry ==
    [][(Clicked("submit") /\ Strip(user_input) # <<>>) =>
          /\ Len(chatbot') = Len(chatbot) + 1
          /\ SubSeq(chatbot', 1, Len(chatbot)) = chatbot
          /\ chatbot'[Len(chatbot')] =
                 <<user_input, MockReply(user_input, agent_type, temperature)>>
          /\ user_input' = <<>>
          /\ DOMAIN conversation_state' =
                 DOMAIN conversation_state \cup {"last_input", "last_agent"}
          /\ conversation_state'["last_input"] = user_input
          /\ conversation_state'["last_agent"] = agent_type
          /\ \A k \in DOMAIN conversation_state \ {"last_input", "last_agent"} :
                 conversation_state'[k] = conversation_state[k]]_vars

\* a second non-blank send, of another text than the first
C17_Witness ==
    /\ ui_event.name = "submit"
    /\ Strip(ui_event.arg) # <<>>
    /\ Len(chatbot) = 2
    /\ chatbot[2][1] = ui_event.arg
    /\ chatbot[1][1] # chatbot[2][1]
    /\ user_input = <<>>
    /\ conversation_state["last_input"] = ui_event.arg

\* a clear has been pressed and no send since
AfterClear ==
    \E i \in 1..Len(ui_trace) :
        /\ ui_trace[i] = "clear"
        /\ \A j \in (i + 1)..Len(ui_trace) : ui_trace[j] # "submit"

\* C18 as stated: clear empties transcript, input and conversation state, a second
\* clear changes nothing, and a send after a clear yields a transcript of exactly
\* one entry.
C18_SendAfterClearOneEntry ==
    [][/\ Clicked("clear") =>
             /\ chatbot' = <<>>
             /\ user_input' = <<>>
             /\ conversation_state' = EmptyDict
       /\ (Clicked("submit") /\ AfterClear) => Len(chatbot') = 1]_vars

\* C18 amended: clear empties transcript, input and conversation state from any
\* state, so a clear pressed right after a clear leaves all three as they are; the
\* first send after a clear yields a transcript of exactly one entry when the input
\* is non-blank, and leaves the transcript empty when the input is blank, as it is
\* when send is pressed right after clear.
C18_ClearResetsAndIsIdempotent ==
    [][/\ Clicked("clear") =>
             /\ chatbot' = <<>>
             /\ user_input' = <<>>
             /\ conversation_state' = EmptyDict
       /\ (Clicked("clear") /\ ui_event.name = "clear") =>
             UNCHANGED <<chatbot, user_input, conversation_state>>
       /\ (Clicked("submit") /\ AfterClear) =>
             /\ Strip(user_input) # <<>> => Len(chatbot') = 1
             /\ Strip(user_input) = <<>> => chatbot' = <<>>
       /\ (Clicked("submit") /\ ui_event.name = "clear") => chatbot' = <<>>]_vars

\* a transcript with an entry was cleared, and clear was pressed again
C18_Witness ==
    /\ Len(ui_trace) >= 4
    /\ SubSeq(ui_trace, Len(ui_trace) - 3, Len(ui_trace)) =
           <<"type", "submit", "clear", "clear">>
    /\ chatbot = <<>>
    /\ conversation_state = EmptyDict

\* the events of the chat page
ChatPageEvents == {"type", "agent", "slider", "submit", "clear"}

\* C19: the selected tab is one of home, chat and about; it is home until a tab is
\* chosen; after a click on a navigation button it is the tab of that button,
\* whatever tab was selected before, and no chat-page action changes it.
C19_TabIsLastButtonClicked ==
    /\ [](/\ tabs \in TabIds
          /\ (\A i \in 1..Len(ui_trace) : ui_trace[i] \in ChatPageEvents) => tabs = "home"
          /\ ui_event.name = "nav" => tabs = ui_event.arg)
    /\ [][/\ Clicked("nav") => tabs' = ui_event'.arg /\ ui_event'.arg \in TabIds
          /\ (\E name \in ChatPageEvents : Clicked(name)) => tabs' = tabs]_vars

\* the about button clicked on the chat tab after a message was sent there
C19_Witness ==
    /\ ui_event = [name |-> "nav", arg |-> "about"]
    /\ tabs = "about"
    /\ Len(chatbot) = 1
    /\ ui_trace = <<"nav", "type", "submit", "nav">>

\* the text a wrapper puts in front of str(e)
ErrorPrefix(fn) == IF fn = "chat" THEN RedisFailPrefix ELSE SorryPrefix

\* C20: when the graph call raises, LangGraphChatApp.chat and chat of the Redis demo
\* return their error text followed by str(e) instead of the reply, and
\* AsyncLangGraphChatApp.chat returns that string as response with error set; no
\* exception leaves a wrapper, and the failed asynchronous call leaves
\* session_stats as it was.
C20_WrappersReturnErrorText ==
    /\ [](/\ wrap_ret.ret.kind = "return"
          /\ wrap_ret.outcome.raises =>
                wrap_ret.ret.value = ErrorPrefix(wrap_ret.fn) \o wrap_ret.outcome.e
          /\ \A t \in Tasks :
                /\ tasks[t].ret.kind = "return"
                /\ (tasks[t].pc = "done" /\ tasks[t].outcome.raises) =>
                      tasks[t].ret.value =
                          [response |-> SorryPrefix \o tasks[t].outcome.e, error |-> TRUE])
    /\ [][(\E t \in Tasks : /\ tasks[t].pc = "awaiting"
                            /\ tasks'[t].pc = "done"
                            /\ tasks'[t].outcome.raises) =>
             session_stats' = session_stats]_vars

\* a call on a session fails after another call on it returned a reply, and a
\* synchronous wrapper has returned an error text
C20_Witness ==
    /\ wrap_ret.fn # "none"
    /\ wrap_ret.outcome.raises
    /\ wrap_ret.outcome.e # <<>>
    /\ tasks[2].pc = "done"
    /\ tasks[2].outcome.raises
    /\ Completed(tasks[2].session_id) = {1}
    /\ CountOf(session_stats, tasks[2].session_id) = 1

-----------------------------------------------------------------------------
(* C21..C30 *)

\* the handler leaves the "handle" position in this step
WsLeavesHandle == ws.pc = "handle" /\ ws'.pc # "handle"

\* C21: on an open WebSocket connection every text frame read is answered by exactly
\* one JSON frame before the next frame is read: at every read all frames read so far
\* have been answered, while a frame is handled exactly one answer is outstanding, and
\* the handler always gets from the read to the answer.  With the client connected the
\* answer is one frame, a reply or an error object; a failure of the processing or an
\* uninitialized chat application gives the error object and the handler reads again.
\* The handler ends only after the client has disconnected.
C21_EveryFrameAnsweredOnce ==
    /\ [](ws.pc = "receive" => ws.sent = ws.received)
    /\ [](ws.pc = "handle" => ws.sent + 1 = ws.received)
    /\ [][(WsLeavesHandle /\ ws.client = "open")
            => /\ ws'.pc = "receive"
               /\ ws'.sent = ws.sent + 1
               /\ resp'.op = "ws"
               /\ resp'.fields \in {{"error"}, {"response", "user_info", "session_id"}}
               /\ (~chat_app => resp'.fields = {"error"} /\ resp'.invocations = 0)
               /\ (resp'.status # 200 => resp'.fields = {"error"})]_vars
    /\ [][(ws.pc # "ended" /\ ws'.pc = "ended") => ws.client = "closed"]_vars
    /\ ((ws.pc = "handle") ~> (ws.pc # "handle"))

\* two frames answered on one connection that is still open, the last one by the error
\* object of a failed graph call
C21_Witness ==
    /\ ws.pc = "receive"
    /\ ws.client = "open"
    /\ ws.received = 2
    /\ ws.sent = 2
    /\ chat_app
    /\ resp.op = "ws"
    /\ resp.fields = {"error"}
    /\ resp.invocations = 1

\* the history of thread t holds the user message text
HoldsMessage(t, text) ==
    \E k \in 1..Len(MessagesOf(t)) : MessagesOf(t)[k] = HumanMessage(text)

\* the step is one of the loop of batch_chat
BatchLoopStep == batch.pc = "loop" /\ batch' # batch

\* the last response is a returned batch and no other batch is in flight
BatchReturned == resp.op = "batch" /\ resp.status = 200 /\ batch.pc = "none"

\* the i-th response of the returned batch answers the i-th message under the key
\* "s_batch_(i-1)" (lists count from 1 here and from 0 in the key)
BatchResultsInOrder ==
    /\ Len(resp.responses) = Len(resp.req_messages)
    /\ \A i \in 1..Len(resp.req_messages) :
          LET key == resp.session_id \o "_batch_" \o ToString(i - 1)
              n == Len(MessagesOf(key))
          IN  /\ resp.responses[i].req_message = resp.req_messages[i]
              /\ resp.responses[i].session_id = key
              /\ resp.responses[i].status = 200
              /\ n >= 2
              /\ MessagesOf(key)[n - 1] = HumanMessage(resp.req_messages[i])
              /\ MessagesOf(key)[n] = AIMessage(resp.responses[i].response)

\* the list batch_chat of the asynchronous example returned holds one result per
\* message, in order, each computed under its own key
GatherResultsInOrder ==
    /\ Len(wrap_ret.ret.value) = Len(gather.messages)
    /\ \A t \in 1..Len(gather.messages) :
          /\ tasks[t].message = gather.messages[t]
          /\ tasks[t].session_id = gather.session_id \o "_batch_" \o ToString(t - 1)
          /\ wrap_ret.ret.value[t] = tasks[t].ret.value
          /\ wrap_ret.ret.value[t].response =
                 IF tasks[t].outcome.raises
                 THEN SorryPrefix \o tasks[t].outcome.e
                 ELSE tasks[t].outcome.reply
    /\ gather.session_id \notin DOMAIN session_stats

IsSuffix(part, seq) ==
    /\ Len(part) <= Len(seq)
    /\ SubSeq(seq, Len(seq) - Len(part) + 1, Len(seq)) = part

\* the history as it was when the last invoke built its prompt
HistoryAtInvoke ==
    IF chain.last = "invoke returned"
    THEN SubSeq(chain.history, 1, Len(chain.history) - 2)
    ELSE chain.history

\* C23 as stated: WindowMemoryChain hands the model the last window_size messages of
\* its history, all of it when it holds at most window_size messages: never more
\* than window_size messages, always a suffix of the history; get_window_info
\* reports messages_in_window = min(total_messages, window_size).
C23_ModelSeesAtMostWindow ==
    /\ (chain.kind = "window" /\ chain.last \in {"invoke returned", "invoke raised"})
          => /\ Len(chain.seen) <= chain.window_size
             /\ Len(chain.seen) = Min(Len(HistoryAtInvoke), chain.window_size)
             /\ IsSuffix(chain.seen, HistoryAtInvoke)
    /\ (chain.kind = "window" /\ chain.last = "get_window_info")
          => chain.info.messages_in_window =
                 Min(chain.info.total_messages, chain.info.window_size)

\* a helper for C24: user and assistant messages alternate, user first
Alternates(history) ==
    \A k \in 1..Len(history) :
        history[k].type = (IF k % 2 = 1 THEN "human" ELSE "ai")

\* C24: an invoke of ManualMemoryChain or WindowMemoryChain that returns appends the
\* user input and then the reply to the history, two messages; an invoke whose model
\* call raises leaves the history as it was; so the length of the history is always
\* even and user and assistant messages alternate.
C24_InvokeAppendsPairOrNothing ==
    /\ [](Len(chain.history) % 2 = 0 /\ Alternates(chain.history))
    /\ [][(chain'.n = chain.n + 1)
            => \/ /\ chain'.last = "invoke raised"
                  /\ chain'.history = chain.history
               \/ /\ chain'.last = "invoke returned"
                  /\ Len(chain'.history) = Len(chain.history) + 2
                  /\ SubSeq(chain'.history, 1, Len(chain.history)) = chain.history
                  /\ chain'.history[Len(chain.history) + 1] = HumanMessage(chain'.input)
                  /\ chain'.history[Len(chain.history) + 2].type = "ai"]_vars

\* a chain whose last invoke raised after two that returned
C24_Witness ==
    /\ chain.kind \in {"manual", "window"}
    /\ chain.last = "invoke raised"
    /\ Len(chain.history) = 4
    /\ chain.n = 3

\* C25: the advanced node hands the model at most 11 messages: the system message
\* and, when the session holds more than 10 messages, its last 6, otherwise all of
\* them.  Only the model input is trimmed: the stored list is never shortened, a turn
\* that returns appends the user message and the reply to it.
C25_ModelInputTrimmedStoredListGrows ==
    /\ [](Len(adv.seen) <= 11)
    /\ [][(adv'.n = adv.n + 1)
            => LET held == Append(adv.messages, HumanMessage(adv'.seen[Len(adv'.seen)].content))
               IN  /\ adv'.seen[1].type = "system"
                   /\ adv'.seen[Len(adv'.seen)].type = "human"
                   /\ Tail(adv'.seen) = IF Len(held) > 10
                                        THEN SubSeq(held, Len(held) - 5, Len(held))
                                        ELSE held
                   /\ Len(adv'.messages) >= Len(adv.messages)
                   /\ SubSeq(adv'.messages, 1, Len(adv.messages)) = adv.messages
                   /\ (adv'.last = "returned"
                         => /\ Len(adv'.messages) = Len(adv.messages) + 2
                            /\ adv'.messages = Append(held, AIMessage(adv'.ret)))]_vars

\* the sixth turn in a row has returned: the node held 11 messages and handed the
\* model 7, the session stores 12
C25_Witness ==
    /\ adv.last = "returned"
    /\ Len(adv.messages) = 12
    /\ Len(adv.seen) = 7

\* a GET request on session_id was answered while the application was initialized
\* and the session had no stored state
AnsweredOnEmptySession(op, session_id) ==
    /\ chat_app
    /\ store[session_id] = NoValues
    /\ nreq' = nreq + 1
    /\ resp'.op = op
    /\ resp'.req_session_id = Some(session_id)

\* C26: for a session with no stored state GET /sessions/{session_id}/info answers
\* 404 with the not-found detail (a 500 only when the state query itself raised),
\* GET /conversations/{session_id} answers 200 with an empty message list and an
\* empty user_info (a 500 only when the state query raised), and neither request
\* changes the stored state of any session.
C26_Info404HistoryEmptyNoStateCreated ==
    [][\A session_id \in ThreadIds :
          /\ AnsweredOnEmptySession("info", session_id)
               => /\ \/ resp'.status = 404 /\ resp'.detail = DetailNotFound
                     \/ /\ resp'.status = 500
                        /\ resp'.detail = DetailInfoFailed \o StateError
                  /\ store' = store
          /\ AnsweredOnEmptySession("history", session_id)
               => /\ \/ /\ resp'.status = 200
                        /\ resp'.messages = <<>>
                        /\ resp'.user_info = EmptyDict
                        /\ resp'.session_id = session_id
                     \/ /\ resp'.status = 500
                        /\ resp'.detail = DetailHistoryFailed \o StateError
                  /\ store' = store]_vars

\* after a chat on another session: the history of alice was read as empty, then
\* her info request answered 404, and she still has no stored state
C26_Witness ==
    /\ chat_app
    /\ resp.op = "info"
    /\ resp.status = 404
    /\ resp.req_session_id = Some("alice")
    /\ store["alice"] = NoValues
    /\ \E t \in ThreadIds : store[t] # NoValues

\* the operations of the four endpoints that test chat_app
GuardedOps == {"chat", "batch", "history", "info"}

\* C27: while chat_app is not initialized, every request to POST /chat, POST
\* /chat/batch, GET /conversations/{session_id} and GET /sessions/{session_id}/info
\* is answered 500 with the not-initialized detail, without a graph call and without
\* a change of any state; chat_app changes only from uninitialized to initialized,
\* in a startup whose connectivity test succeeded, and a startup that failed leaves
\* it uninitialized.
C27_UninitializedAnswers500 ==
    /\ [][(~chat_app /\ nreq' = nreq + 1)
            => /\ resp'.op \in GuardedOps
               /\ resp'.status = 500
               /\ resp'.detail = DetailUninitialized
               /\ resp'.invocations = 0
               /\ resp'.responses = <<>>
               /\ UNCHANGED <<chat_app, store, last_count, chat_log, batch>>]_vars
    /\ [][chat_app' # chat_app
            => /\ ~chat_app
               /\ chat_app'
               /\ resp'.op = "startup"
               /\ resp'.status = 200]_vars
    /\ [][(resp'.op = "startup" /\ resp'.status = 500) => ~chat_app']_vars

\* after a startup that failed, a second request was refused, this one a batch
C27_Witness ==
    /\ ~chat_app
    /\ nreq >= 2
    /\ resp.op = "batch"
    /\ resp.status = 500
    /\ resp.detail = DetailUninitialized
    /\ Len(resp.req_messages) >= 1

\* the step is the one in which processing of a message of the batch fails
BatchFails == batch.pc = "loop" /\ batch'.pc = "none" /\ resp'.status # 200

\* C28: when processing of the k-th message of a batch fails (k = batch.i, counted
\* from 0), the request answers 500 with the batch-failed detail and carries none of
\* the k replies collected so far; the sub-sessions of messages 0..k-1 keep the user
\* message and reply stored for them, the graph was called k+1 times, and the
\* sub-sessions of the messages after k are left as they were, the loop being over.
C28_BatchFailureKeepsEarlierTurns ==
    [][BatchFails
         => LET key(j) == batch.session_id \o "_batch_" \o ToString(j)
                k == batch.i
                n == Len(batch.messages)
            IN  /\ resp'.op = "batch"
                /\ resp'.status = 500
                /\ resp'.detail = DetailBatchFailed
                /\ resp'.responses = <<>>
                /\ resp'.invocations = k + 1
                /\ Len(batch.responses) = k
                /\ batch' = BatchDone(batch.issued)
                /\ \A j \in 0..(k - 1) :
                      LET held == DictGet(store'[key(j)], "messages", <<>>)
                      IN  /\ store'[key(j)] = store[key(j)]
                          /\ Len(held) >= 2
                          /\ held[Len(held) - 1] = HumanMessage(batch.messages[j + 1])
                          /\ held[Len(held)] = AIMessage(batch.responses[j + 1].response)
                /\ \A j \in (k + 1)..(n - 1) : store'[key(j)] = store[key(j)]]_vars

\* a batch of two on session alice failed at its second message without saving it:
\* the first sub-session holds the first message, the second one nothing
C28_Witness ==
    /\ resp.op = "batch"
    /\ resp.status = 500
    /\ resp.detail = DetailBatchFailed
    /\ resp.req_session_id = Some("alice")
    /\ Len(resp.req_messages) = 2
    /\ resp.invocations = 2
    /\ resp.responses = <<>>
    /\ batch.pc = "none"
    /\ HoldsMessage("alice_batch_0", resp.req_messages[1])
    /\ store["alice_batch_1"] = NoValues

\* the step is a call of get_session_stats (a call that creates a coroutine changes
\* the coroutine table)
StatsLookup ==
    /\ ncalls' = ncalls + 1
    /\ tasks' = tasks
    /\ wrap_ret'.fn = "AsyncLangGraphChatApp.get_session_stats"

\* C29: a session has an entry in session_stats only after a chat call on it
\* returned without error; an entry has a message_count of at least 1 and an
\* avg_time that is total_time over that count; entries are never removed and their
\* message_count and total_time never decrease; get_session_stats returns the entry
\* of the session, or the empty mapping when there is none, and leaves session_stats
\* as it was.
C29_StatsEntriesOnlyAfterSuccess ==
    /\ [](\A s \in DOMAIN session_stats :
             /\ Completed(s) # {}
             /\ session_stats[s].message_count >= 1
             /\ session_stats[s].total_time >= 0
             /\ session_stats[s].avg_time =
                    Ratio(session_stats[s].total_time, session_stats[s].message_count))
    /\ [][\A s \in DOMAIN session_stats :
             /\ s \in DOMAIN session_stats'
             /\ session_stats'[s].message_count >= session_stats[s].message_count
             /\ session_stats'[s].total_time >= session_stats[s].total_time]_vars
    /\ [][StatsLookup
            => /\ session_stats' = session_stats
               /\ wrap_ret'.ret = Return(IF wrap_ret'.session_id \in DOMAIN session_stats
                                         THEN session_stats[wrap_ret'.session_id]
                                         ELSE EmptyDict)]_vars

\* after a chat on "default" returned and one on "user_1" failed, the statistics of
\* "user_1" were asked for: the empty mapping, and still no entry
C29_Witness ==
    /\ wrap_ret.fn = "AsyncLangGraphChatApp.get_session_stats"
    /\ wrap_ret.session_id = "user_1"
    /\ wrap_ret.ret = Return(EmptyDict)
    /\ "user_1" \notin DOMAIN session_stats
    /\ "default" \in DOMAIN session_stats
    /\ \E t \in Tasks : tasks[t].pc = "done" /\ tasks[t].session_id = "user_1"

\* the stored user_info of a thread
UserInfoOf(values) == DictGet(values, "user_info", EmptyDict)

\* C30: the set of keys of the stored user_info of a session never shrinks, whatever
\* the request; a chat that succeeded stores, and answers with, the old mapping
\* updated by what the extractor finds in the whole history including the new
\* message, and that history has the old one as a prefix.
C30_UserInfoKeysNeverShrink ==
    [][/\ store' # store
            => \A t \in MemoryKeys :
                  DOMAIN UserInfoOf(store[t]) \subseteq DOMAIN UserInfoOf(store'[t])
       /\ (Handled("chat") /\ resp'.status = 200)
            => \E t \in {resp'.session_id} :
               \E held \in {DictGet(store'[t], "messages", <<>>)} :
                  /\ Len(held) = Len(MessagesOf(t)) + 2
                  /\ SubSeq(held, 1, Len(MessagesOf(t))) = MessagesOf(t)
                  /\ UserInfoOf(store'[t]) =
                         DictUpdate(UserInfoOf(store[t]),
                                    extract_user_info_async(
                                        SubSeq(held, 1, Len(held) - 1)))
                  /\ resp'.user_info = UserInfoOf(store'[t])]_vars

\* the second chat of alice spoke of her job and city only: the name of her first
\* message is still there, next to the new location
C30_Witness ==
    /\ ChatSucceeded
    /\ resp.session_id = "alice"
    /\ resp.req_message = TextManager
    /\ resp.message_count >= 4
    /\ {"name", "job", "location"} \subseteq DOMAIN UserInfoOf(store["alice"])
    /\ "name" \notin DOMAIN extract_user_info_async(<<HumanMessage(TextManager)>>)
====
